---- MODULE Spec2Model ----
(***************************************************************************)
(* pyvi: Volterra-series order separation (separation.py) and kernel       *)
(* identification (methods.py).                                            *)
(*                                                                         *)
(* One call is in flight at a time (the library is synchronous and keeps   *)
(* no state across calls).  The module holds several specifications over   *)
(* the same variables:                                                     *)
(*   Spec      the five identification entry points of methods.py          *)
(*   SpecCast  _cplx_to_real of methods.py                                 *)
(*   SpecPS    the phase-based separation PS of separation.py              *)
(*   SpecAS    the amplitude-based separation AS of separation.py          *)
(*   SpecPAS   the phase-and-amplitude separation PAS of separation.py     *)
(*   SpecGen   gen_inputs of the separation methods                        *)
(*   SpecMeasures  the error measures of measures.py and safe_db           *)
(*   SpecKLS   the design matrix and the kernels of KLS                    *)
(*   SpecFlow  the data flow of the identification entry points and the    *)
(*             arrays the calls write                                      *)
(*   SpecAmp   the amplitude factors in the int64 arithmetic of numpy      *)
(***************************************************************************)
EXTENDS Integers, Sequences, FiniteSets, TLC

VARIABLES
    pc,        \* position of the call in flight ("idle" between calls)
    call,      \* arguments and locals of the call in flight
    work,      \* numeric steps the call in flight has performed, in order
    ret,       \* what the last call returned or raised
    warned,    \* warnings emitted through warnings.warn
    obj,       \* the separation method object (N, K, factors, ...)
    coll       \* the signals around a separation: base signal, test inputs, outputs

vars == <<pc, call, work, ret, warned, obj, coll>>

(***************************************************************************)
(* Bounds of the model.                                                    *)
(***************************************************************************)
MaxN == 3
MaxM == 2
MaxData == 9
MaxVal == 2
MaxLen == 1
MaxRows == 2
MaxCoef == 1

NoCall == [name |-> "none"]
NoRet == [kind |-> "none"]
NoObj == [cls |-> "none"]
NoColl == [state |-> "none"]

(***************************************************************************)
(* Integer helpers.                                                        *)
(***************************************************************************)
RECURSIVE Pow(_, _)
Pow(b, e) == IF e = 0 THEN 1 ELSE b * Pow(b, e - 1)

RECURSIVE SumOver(_, _)
\* sum of f[x] for x in the finite set S
SumOver(f, S) ==
    IF S = {} THEN 0
    ELSE LET x == CHOOSE y \in S : TRUE IN f[x] + SumOver(f, S \ {x})

\* range(start, stop, 2) of Python, as a set
RangeStep2(start, stop) == {n \in start..(stop - 1) : (n - start) % 2 = 0}

(***************************************************************************)
(* pyvi.utilities.mathbox / pyvi.identification.tools.                     *)
(***************************************************************************)
RECURSIVE binomial(_, _)
binomial(n, k) ==
    IF k < 0 \/ k > n THEN 0
    ELSE IF k = 0 THEN 1
    ELSE (binomial(n - 1, k - 1) * n) \div k

Forms == {"sym", "tri"}

\* number of coefficients of one kernel of order n and memory M
nb_coeff_in_kernel(M, n, form) ==
    IF form = "tri" THEN binomial(M + n - 1, n) ELSE Pow(M, n)

\* number of coefficients of all kernels of orders 1..N
nb_coeff_in_all_kernels(M, N, form) ==
    SumOver([n \in 1..N |-> nb_coeff_in_kernel(M, n, form)], 1..N)

\* TRUE when the assertion passes, FALSE when it raises
assert_enough_data_samples(nb_data, nb_coeff) == ~(nb_data < nb_coeff)

(***************************************************************************)
(* The feasibility checks of methods.py.  Each gives the coefficient count *)
(* it compares with and whether the assertion passed.                      *)
(***************************************************************************)
Checked(nb_data, nb_coeff) ==
    [nb_coeff |-> nb_coeff, ok |-> assert_enough_data_samples(nb_data, nb_coeff)]

KLS_check_feasability(nb_data, M, N, form) ==
    Checked(nb_data, nb_coeff_in_all_kernels(M, N, form))

orderKLS_check_feasability_lax(nb_data, M, N, form) ==
    Checked(nb_data, nb_coeff_in_kernel(M, N - 1, form))

orderKLS_check_feasability(nb_data, M, N, form) ==
    Checked(nb_data, nb_coeff_in_kernel(M, N, form))

termKLS_check_feasability(nb_data, M, N, form) ==
    orderKLS_check_feasability(nb_data, M, N, form)

phaseKLS_check_feasability(nb_data, M, N, form) ==
    Checked(nb_data,
            SumOver([n \in 1..N |-> nb_coeff_in_kernel(M, n, form)],
                    RangeStep2(2 - (N % 2), N + 1)))

\* the caller's form is not passed on: the count is always that of 'sym'
iterKLS_check_feasability(nb_data, M, N, form) ==
    orderKLS_check_feasability(nb_data, M, N, "sym")

Methods == {"KLS", "orderKLS", "termKLS", "phaseKLS", "iterKLS"}

check_feasability(m, nb_data, M, N, form) ==
    CASE m = "KLS"      -> KLS_check_feasability(nb_data, M, N, form)
      [] m = "orderKLS" -> orderKLS_check_feasability(nb_data, M, N, form)
      [] m = "termKLS"  -> termKLS_check_feasability(nb_data, M, N, form)
      [] m = "phaseKLS" -> phaseKLS_check_feasability(nb_data, M, N, form)
      [] m = "iterKLS"  -> iterKLS_check_feasability(nb_data, M, N, form)

(***************************************************************************)
(* The statements of an identification entry point, in program order.      *)
(***************************************************************************)
StatementsBasisFirst(m) == <<"phi", "check", "core", "reshape">>

Statements(m) == <<"check", "phi", "core", "reshape">>

\* the statement after the one at position i, "done" after the last
StatementAt(m, i) ==
    IF i > Len(Statements(m)) THEN "done" ELSE Statements(m)[i]

\* the numeric work of the core computation of each entry point
CoreWork(m) ==
    CASE m \in {"KLS", "orderKLS", "termKLS", "iterKLS"} ->
            <<"qr", "project", "solve_triangular">>
      [] m = "phaseKLS" ->
            <<"qr", "project", "solve_triangular", "solve_triangular">>

(***************************************************************************)
(* Actions of the identification entry points.                             *)
(***************************************************************************)
Init ==
    /\ pc = "idle"
    /\ call = NoCall
    /\ work = <<>>
    /\ ret = NoRet
    /\ warned = <<>>
    /\ obj = NoObj
    /\ coll = NoColl

\* KLS / orderKLS / termKLS / phaseKLS / iterKLS is called
Call(m, nb_data, M, N, form, phi_given) ==
    /\ pc = "idle"
    /\ call' = [name |-> m, nb_data |-> nb_data, M |-> M, N |-> N,
                form |-> form, phi_given |-> phi_given,
                ip |-> 1, nb_coeff |-> -1]
    /\ pc' = StatementAt(m, 1)
    /\ work' = <<>>
    /\ ret' = NoRet
    /\ UNCHANGED <<warned, obj, coll>>

Advance ==
    /\ call' = [call EXCEPT !.ip = call.ip + 1]
    /\ pc' = StatementAt(call.name, call.ip + 1)

\* "Checking that there is enough data samples"
CheckFeasability ==
    /\ pc = "check"
    /\ LET c == check_feasability(call.name, call.nb_data, call.M, call.N,
                                  call.form)
       IN IF c.ok
          THEN /\ call' = [call EXCEPT !.ip = call.ip + 1,
                                       !.nb_coeff = c.nb_coeff]
               /\ pc' = StatementAt(call.name, call.ip + 1)
               /\ ret' = ret
          ELSE /\ call' = [call EXCEPT !.nb_coeff = c.nb_coeff]
               /\ pc' = "raised"
               /\ ret' = [kind |-> "error", by |-> "assert_enough_data_samples"]
    /\ UNCHANGED <<work, warned, obj, coll>>

\* "Input combinatoric": the Volterra basis is computed unless phi was given
ConstructPhi ==
    /\ pc = "phi"
    /\ work' = IF call.phi_given THEN work ELSE Append(work, "volterra_basis")
    /\ Advance
    /\ UNCHANGED <<ret, warned, obj, coll>>

\* phaseKLS solves one system per parity subset, "for is_odd in [False,
\* True]" over the orders range(1+is_odd, N+1, 2): the second subset is
\* empty when N = 1 and np.concatenate of an empty list raises ValueError
core_raises(m, N) == m = "phaseKLS" /\ RangeStep2(2, N + 1) = {}

\* "Identification": QR decomposition, projection, triangular solve
CoreComputation ==
    /\ pc = "core"
    /\ IF core_raises(call.name, call.N)
       THEN /\ work' = work \o SubSeq(CoreWork(call.name), 1, 3)
            /\ pc' = "raised"
            /\ ret' = [kind |-> "error", by |-> "np.concatenate"]
            /\ call' = call
       ELSE /\ work' = work \o CoreWork(call.name)
            /\ Advance
            /\ ret' = ret
    /\ UNCHANGED <<warned, obj, coll>>

\* "Re-arranging vector f into volterra kernels" and return
Rearrange ==
    /\ pc = "reshape"
    /\ work' = Append(work, "vector_to_kernel")
    /\ ret' = [kind |-> "kernels", keys |-> 1..call.N]
    /\ Advance
    /\ UNCHANGED <<warned, obj, coll>>

\* the call is over (returned or raised); the caller may call again
Return ==
    /\ pc \in {"done", "raised"}
    /\ pc' = "idle"
    /\ call' = NoCall
    /\ UNCHANGED <<work, ret, warned, obj, coll>>

Next ==
    \/ \E m \in Methods, nb_data \in 0..MaxData, M \in 1..MaxM, N \in 1..MaxN,
          form \in Forms, phi_given \in BOOLEAN :
            Call(m, nb_data, M, N, form, phi_given)
    \/ CheckFeasability
    \/ ConstructPhi
    \/ CoreComputation
    \/ Rearrange
    \/ Return

Spec == Init /\ [][Next]_vars

(***************************************************************************)
(* Claims on the feasibility checks (specification Spec).                  *)
(***************************************************************************)
\* the call in flight has gone through its feasibility check
Checkpoint == call.name # "none" /\ call.nb_coeff # -1

OwnFormCount(m, M, N, form) ==
    CASE m = "KLS" -> nb_coeff_in_all_kernels(M, N, form)
      [] m \in {"orderKLS", "termKLS", "iterKLS"} -> nb_coeff_in_kernel(M, N, form)
      [] m = "phaseKLS" ->
            SumOver([n \in 1..N |-> nb_coeff_in_kernel(M, n, form)],
                    {n \in 1..N : (N - n) % 2 = 0})

\* C2: in every identification variant, iterKLS included, the count the
\* feasibility check compares nb_data with is that of the caller's own
\* (M, N, form).
C2_ThresholdOfOwnForm ==
    Checkpoint =>
        call.nb_coeff = OwnFormCount(call.name, call.M, call.N, call.form)

\* C3: whenever the feasibility check raises, the call has performed no
\* basis construction, QR factorisation, projection or triangular solve,
\* and returns no kernel mapping.
C3_CheckIsFirstStep ==
    (pc = "raised" /\ ret.by = "assert_enough_data_samples")
        => (work = <<>> /\ ret.kind = "error")

\* a call that was to compute its own basis has raised
C3_Witness ==
    /\ pc = "raised"
    /\ ~call.phi_given
    /\ ret.kind = "error"
    /\ ret.by = "assert_enough_data_samples"

(***************************************************************************)
(* _cplx_to_real of methods.py (specification SpecCast).                   *)
(* A complex array is a sequence of rows <<re, im>>; a real array is a     *)
(* sequence of integers.                                                   *)
(***************************************************************************)
KnownCastModes == {"real", "imag", "real-imag"}

\* the strings a caller may pass: the documented ones, 'cplx' (which the
\* last branch of the function tests for) and some other string
CastModes == KnownCastModes \cup {"cplx", "other"}

CplxArrays ==
    UNION {[1..len -> (0..MaxVal) \X (0..MaxVal)] : len \in 1..MaxRows}

np_real(sig) == [i \in 1..Len(sig) |-> sig[i][1]]

np_imag(sig) == [i \in 1..Len(sig) |-> sig[i][2]]

\* the cast mode in force after the "if cast_mode not in {...}" statement
cast_mode_after_check(cast_mode) ==
    IF cast_mode \notin KnownCastModes THEN "real" ELSE cast_mode

\* the if / elif chain on the cast mode in force
cast_branches(sig, cast_mode) ==
    CASE cast_mode = "real" ->
            [kind |-> "array", value |-> [i \in 1..Len(sig) |-> 2 * np_real(sig)[i]]]
      [] cast_mode = "imag" ->
            [kind |-> "array", value |-> [i \in 1..Len(sig) |-> 2 * np_real(sig)[i]]]
      [] cast_mode = "real-imag" ->
            [kind |-> "array", value |-> np_real(sig) \o np_imag(sig)]
      [] cast_mode = "cplx" ->
            [kind |-> "cplx_array", value |-> sig]
      [] OTHER -> [kind |-> "None"]

\* _cplx_to_real is called
CastCall(sig, cast_mode) ==
    /\ pc = "idle"
    /\ call' = [name |-> "_cplx_to_real", sig_cplx |-> sig,
                cast_mode_arg |-> cast_mode, cast_mode |-> cast_mode]
    /\ pc' = "cast_check"
    /\ work' = <<>>
    /\ ret' = NoRet
    /\ warned' = <<>>
    /\ UNCHANGED <<obj, coll>>

\* if cast_mode not in {'real', 'imag', 'real-imag'}: warn and reassign
CastCheckMode ==
    /\ pc = "cast_check"
    /\ IF call.cast_mode \notin KnownCastModes
       THEN warned' = Append(warned, "Unknown cast_mode, mode 'real-imag' used.")
       ELSE warned' = warned
    /\ call' = [call EXCEPT !.cast_mode = cast_mode_after_check(call.cast_mode)]
    /\ pc' = "cast_branch"
    /\ UNCHANGED <<work, ret, obj, coll>>

\* the branch taken and its return value
CastConvert ==
    /\ pc = "cast_branch"
    /\ ret' = cast_branches(call.sig_cplx, call.cast_mode)
    /\ pc' = "done"
    /\ UNCHANGED <<call, work, warned, obj, coll>>

\* the caller has read the result
CastReturn ==
    /\ pc = "done"
    /\ call.name = "_cplx_to_real"
    /\ pc' = "idle"
    /\ call' = NoCall
    /\ UNCHANGED <<work, ret, warned, obj, coll>>

NextCast ==
    \/ \E sig \in CplxArrays, cast_mode \in CastModes : CastCall(sig, cast_mode)
    \/ CastCheckMode
    \/ CastConvert
    \/ CastReturn

SpecCast == Init /\ [][NextCast]_vars

(***************************************************************************)
(* Claims on _cplx_to_real (specification SpecCast).                       *)
(***************************************************************************)
\* C4: called with a cast_mode outside 'real', 'imag', 'real-imag',
\* _cplx_to_real emits a warning and returns the 'real-imag' cast: the real
\* part followed by the imaginary part, twice as many rows as the input.
C4_UnknownModeCastsRealImag ==
    (/\ pc = "done"
     /\ call.name = "_cplx_to_real"
     /\ call.cast_mode_arg \notin KnownCastModes)
        => /\ Len(warned) = 1
           /\ ret.kind = "array"
           /\ ret.value = np_real(call.sig_cplx) \o np_imag(call.sig_cplx)
           /\ Len(ret.value) = 2 * Len(call.sig_cplx)

(***************************************************************************)
(* Separation methods of separation.py.                                    *)
(*                                                                         *)
(* Signals are 1-D arrays (sequences of samples); a collection is a        *)
(* sequence of signals, one row per test signal.  Rows and orders are      *)
(* numbered from 1 here: row k of the code is row k+1 of the model.        *)
(*                                                                         *)
(* The system under test is a polynomial nonlinearity with coefficients    *)
(* a[1..N]: its homogeneous order n answers a[n] * x^n to the input x, so  *)
(* the answer to factor * signal is the sum of factor^n * y_n.             *)
(***************************************************************************)
Signals == UNION {[1..len -> 0..MaxVal] : len \in 1..MaxLen}

Systems(N) == [1..N -> 0..MaxCoef]

FreshColl == [signal |-> <<>>, sys |-> <<>>, input_coll |-> <<>>,
              output_coll |-> <<>>]

(***************************************************************************)
(* Arithmetic of the separation.  The code computes with floating-point    *)
(* real and complex numbers and, in PS, with w = exp(-2i*pi/N).  The model *)
(* computes in the prime field of Modulus elements, chosen so that it      *)
(* holds an element of multiplicative order N (the tests of PS) and 2N+1   *)
(* (the phases of PAS) for every modelled N: there                         *)
(* sums, products, the division by N, by rho and by a determinant are      *)
(* exact, and every identity of the real or complex computation that       *)
(* rests on field arithmetic and on w being a primitive N-th root of unity *)
(* carries over.  Amplitude factors are kept as the integers they are and  *)
(* are reduced where they enter a product.                                 *)
(***************************************************************************)
IsPrime(p) == p > 1 /\ \A d \in 2..(p - 1) : p % d # 0

HasRoots(p) ==
    \A n \in 1..MaxN : (p - 1) % n = 0 /\ (p - 1) % (2 * n + 1) = 0

\* the least prime above 100 that is 1 modulo every N and 2N+1, N in 1..MaxN
Modulus ==
    CHOOSE p \in 101..3000 :
        /\ IsPrime(p) /\ HasRoots(p)
        /\ \A q \in 101..(p - 1) : ~(IsPrime(q) /\ HasRoots(q))

FMod(x) == x % Modulus

RECURSIVE FPow(_, _)
FPow(b, e) == IF e = 0 THEN 1 ELSE FMod(b * FPow(b, e - 1))

RECURSIVE Bezout(_, _)
\* <<u, v>> with u * a + v * b = gcd(a, b), by Euclid's algorithm
Bezout(a, b) ==
    IF b = 0 THEN <<1, 0>>
    ELSE LET r == Bezout(b, a % b)
         IN <<r[2], r[1] - (a \div b) * r[2]>>

\* 1/x, for x not 0 in the field
FInv(x) == FMod(Bezout(FMod(x), Modulus)[1])

RECURSIVE FSum(_, _)
\* sum of f[k] for k in 1..n, in the field
FSum(f, n) == IF n = 0 THEN 0 ELSE FMod(f[n] + FSum(f, n - 1))

\* x has multiplicative order n
HasOrder(x, n) ==
    /\ FPow(x, n) = 1
    /\ \A d \in 1..(n - 1) : FPow(x, d) # 1

\* for every number of tests or of phases modelled, an element of that
\* multiplicative order
unit_roots ==
    [n \in (1..MaxN) \cup {2 * N + 1 : N \in 1..MaxN} |->
        CHOOSE x \in 1..(Modulus - 1) : HasOrder(x, n)]

\* w = np.exp(-1j * 2 * np.pi / nb_test): a primitive nb_test-th root of unity
unit_root(nb_test) == unit_roots[nb_test]

Rhos == {1, 2}

(***************************************************************************)
(* _SeparationMethod and PS.                                               *)
(***************************************************************************)
\* PS._gen_phase_factors: rho * w**np.arange(nb_test)
gen_phase_factors(rho, nb_test) ==
    [k \in 1..nb_test |-> FMod(rho * FPow(unit_root(nb_test), k - 1))]

gen_inputs_signal_major(factors, signal) ==
    [t \in 1..Len(signal) |->
        [k \in 1..Len(factors) |-> FMod(factors[k] * signal[t])]]

\* _SeparationMethod.gen_inputs: np.tensordot(factors, signal, axes=0)
gen_inputs(factors, signal) ==
    [k \in 1..Len(factors) |->
        [t \in 1..Len(signal) |-> FMod(factors[k] * signal[t])]]

\* the answer of the system of coefficients a to the input signal x
simulation(a, x) ==
    [t \in 1..Len(x) |->
        FSum([n \in 1..Len(a) |-> FMod(a[n] * FPow(x[t], n))], Len(a))]

\* the order-n answer of the system to the base signal
order_response(a, signal, n) ==
    [t \in 1..Len(signal) |-> FMod(a[n] * FPow(signal[t], n))]

inverse_fft_unscaled(output_coll, N) ==
    LET w == unit_root(N)
        L == Len(output_coll[1])
    IN [m \in 1..N |->
          [t \in 1..L |->
             FSum([k \in 1..N |->
                     FMod(output_coll[k][t] *
                          FPow(w, (N - (((k - 1) * (m - 1)) % N)) % N))],
                  N)]]

\* PS._inverse_fft: ifft(output_coll, n=N, axis=0); bin m of the code is
\* row m+1:  (1/N) * sum over k of output_coll[k] * exp(+2i*pi*k*m/N)
inverse_fft(output_coll, N) ==
    LET w == unit_root(N)
        L == Len(output_coll[1])
    IN [m \in 1..N |->
          [t \in 1..L |->
             FMod(FInv(N) *
                  FSum([k \in 1..N |->
                          FMod(output_coll[k][t] *
                               FPow(w, (N - (((k - 1) * (m - 1)) % N)) % N))],
                       N))]]

roll_forward_one(a) == [i \in 1..Len(a) |-> a[((i + Len(a) - 2) % Len(a)) + 1]]

\* np.roll(a, -1, axis=0): row i of the result is row i+1 of a, the last
\* row of the result is the first row of a
roll_back_one(a) == [i \in 1..Len(a) |-> a[(i % Len(a)) + 1]]

\* np.vander([1/rho], N=N, increasing=True): powers 0..N-1 of 1/rho
demixing_vec(rho, N) == [i \in 1..N |-> FPow(FInv(rho), i - 1)]

\* demixing_vec.T * a: row i of a times entry i of the vector
scale_rows(vec, a) ==
    [i \in 1..Len(a) |-> [t \in 1..Len(a[i]) |-> FMod(vec[i] * a[i][t])]]

\* PS.process_outputs
PS_process_outputs(rho, N, output_coll) ==
    LET estimation == inverse_fft(output_coll, N)
    IN IF rho = 1
       THEN roll_back_one(estimation)
       ELSE scale_rows(demixing_vec(rho, N), roll_back_one(estimation))

\* PS(N, rho)
PSConstruct(N, rho) ==
    /\ pc = "idle"
    /\ obj' = [cls |-> "PS", N |-> N, K |-> N, rho |-> rho,
               factors |-> gen_phase_factors(rho, N)]
    /\ coll' = FreshColl
    /\ pc' = "constructed"
    /\ UNCHANGED <<call, work, ret, warned>>

\* input_coll = method.gen_inputs(signal)
GenInputs(signal) ==
    /\ pc = "constructed"
    /\ coll' = [coll EXCEPT !.signal = signal,
                            !.input_coll = gen_inputs(obj.factors, signal)]
    /\ pc' = "inputs"
    /\ UNCHANGED <<call, work, ret, warned, obj>>

\* output_coll[ind] = system.simulation(input_coll[ind]) for every ind
Simulate(a) ==
    /\ pc = "inputs"
    /\ coll' = [coll EXCEPT !.sys = a,
                            !.output_coll =
                                [k \in 1..Len(coll.input_coll) |->
                                    simulation(a, coll.input_coll[k])]]
    /\ pc' = "outputs"
    /\ UNCHANGED <<call, work, ret, warned, obj>>

\* PS.process_outputs(output_coll)
PSProcessOutputs ==
    /\ pc = "outputs"
    /\ obj.cls = "PS"
    /\ call' = [name |-> "PS.process_outputs",
                estimation |-> inverse_fft(coll.output_coll, obj.N)]
    /\ ret' = [kind |-> "orders",
               value |-> PS_process_outputs(obj.rho, obj.N, coll.output_coll)]
    /\ pc' = "done"
    /\ UNCHANGED <<work, warned, obj, coll>>

NextPS ==
    \/ \E N \in 1..MaxN, rho \in Rhos : PSConstruct(N, rho)
    \/ \E signal \in Signals : GenInputs(signal)
    \/ pc = "inputs" /\ \E a \in Systems(obj.N) : Simulate(a)
    \/ PSProcessOutputs

SpecPS == Init /\ [][NextPS]_vars

(***************************************************************************)
(* Claims on PS (specification SpecPS).                                    *)
(***************************************************************************)
\* PS.process_outputs has returned
PSDone == pc = "done" /\ obj.cls = "PS"

\* the true order-n signal: the order-n answer of the system to the base signal
TrueOrder(n) == order_response(coll.sys, coll.signal, n)

\* C5: with rho != 1, PS.process_outputs multiplies the recovered signal of
\* order n (row n-1 of the code) by (1/rho)^n for every n in 1..N, which
\* cancels the gain rho^n of the order-n answer: the row is the true order.
C5_RescalesByInverseRhoPowerN ==
    (PSDone /\ obj.rho # 1) =>
        \A n \in 1..obj.N :
            /\ ret.value[n] =
                  [t \in 1..Len(coll.signal) |->
                      FMod(FPow(FInv(obj.rho), n) *
                           roll_back_one(call.estimation)[n][t])]
            /\ ret.value[n] = TrueOrder(n)

\* bin 0 of the inverse DFT differs from every other bin
DCBinStandsOut ==
    \A m \in 2..obj.N : call.estimation[m] # call.estimation[1]

\* C6 (as stated): row n-1 of the result holds bin n of the length-N inverse
\* DFT for n = 1..N-1, and the DC bin (bin 0) is discarded: its value is in
\* no row of the result.  Stated for two orders or more, where bin 0 is
\* not the only bin.
C6_DCBinDiscarded ==
    (PSDone /\ obj.rho = 1 /\ obj.N >= 2) =>
        /\ \A n \in 1..(obj.N - 1) : ret.value[n] = call.estimation[n + 1]
        /\ DCBinStandsOut =>
              \A i \in 1..obj.N : ret.value[i] # call.estimation[1]

\* C6 (amended): with rho = 1 the result is the length-N inverse DFT rolled
\* by one position: row n-1 holds bin n for n = 1..N-1 and the last row,
\* row N-1, holds the DC bin (bin 0); every bin is in exactly one row.
C6_RolledByOne ==
    (PSDone /\ obj.rho = 1) =>
        /\ Len(ret.value) = obj.N
        /\ \A n \in 1..(obj.N - 1) : ret.value[n] = call.estimation[n + 1]
        /\ ret.value[obj.N] = call.estimation[1]

\* a PS of three orders has returned, the three bins pairwise different
C6_Witness ==
    /\ PSDone /\ obj.rho = 1 /\ obj.N = 3
    /\ DCBinStandsOut
    /\ call.estimation[2] # call.estimation[3]

\* C7: with rho = 1 and outputs that are the answers of a system of orders
\* 1..N to gen_inputs(signal), row n-1 of the result is the true order n,
\* for every n in 1..N.
C7_PSRecoversOrders ==
    (PSDone /\ obj.rho = 1) =>
        \A n \in 1..obj.N : ret.value[n] = TrueOrder(n)

\* three orders, all present and pairwise different, have been recovered
C7_Witness ==
    /\ PSDone /\ obj.rho = 1 /\ obj.N = 3
    /\ \A n \in 1..3 : \E t \in 1..Len(coll.signal) : TrueOrder(n)[t] # 0
    /\ \A n, n2 \in 1..3 : n # n2 => TrueOrder(n) # TrueOrder(n2)
    /\ \A n \in 1..3 : ret.value[n] = TrueOrder(n)

(***************************************************************************)
(* AS (specification SpecAS).                                              *)
(***************************************************************************)
Gains == {1, 2}

\* the K argument: <<>> is None, <<k>> is the integer k
KArgs(N) == {<<>>} \cup {<<k>> : k \in {k \in (N - 1)..(N + 1) : k >= 1}}

b2i(b) == IF b THEN 1 ELSE 0

gen_amp_factors_unsigned(gain, negative_gain, nb_test) ==
    [k \in 1..nb_test |-> Pow(gain, (k - 1) \div (1 + b2i(negative_gain)))]

\* AS._gen_amp_factors:
\* (-1)**(tmp_vec*negative_gain) * gain**(tmp_vec // (1+negative_gain))
gen_amp_factors(gain, negative_gain, nb_test) ==
    [k \in 1..nb_test |->
        Pow(-1, (k - 1) * b2i(negative_gain)) *
        Pow(gain, (k - 1) \div (1 + b2i(negative_gain)))]

\* np.vander(x, N=ncol, increasing=True): column j holds x**(j-1)
vander_increasing(x, ncol) ==
    [k \in 1..Len(x) |-> [j \in 1..ncol |-> Pow(x[k], j - 1)]]

keep_leading_columns(a) ==
    [k \in 1..Len(a) |-> [j \in 1..(Len(a[k]) - 1) |-> a[k][j]]]

\* a[:, 1::]: every column but the first
drop_first_column(a) ==
    [k \in 1..Len(a) |-> [j \in 1..(Len(a[k]) - 1) |-> a[k][j + 1]]]

\* mixing_mat = np.vander(self.factors, N=self.N+1, increasing=True)[:,1::]
mixing_matrix(factors, N) == drop_first_column(vander_increasing(factors, N + 1))

\* the matrix without row i and column j
Minor(a, i, j) ==
    [r \in 1..(Len(a) - 1) |->
        [c \in 1..(Len(a) - 1) |->
            a[IF r < i THEN r ELSE r + 1][IF c < j THEN c ELSE c + 1]]]

RECURSIVE Det(_)
\* determinant of a square integer matrix, expanded along its first row
Det(a) ==
    IF Len(a) = 1 THEN a[1][1]
    ELSE LET term(j) == Pow(-1, j + 1) * a[1][j] * Det(Minor(a, 1, j))
             RECURSIVE upto(_)
             upto(j) == IF j = 0 THEN 0 ELSE term(j) + upto(j - 1)
         IN upto(Len(a))

RECURSIVE FDet(_)
\* the same determinant in the field
FDet(a) ==
    IF Len(a) = 1 THEN FMod(a[1][1])
    ELSE FSum([j \in 1..Len(a) |->
                  FMod(Pow(-1, j + 1) * FMod(a[1][j]) * FDet(Minor(a, 1, j)))],
              Len(a))

linalg_inv_untransposed(a) ==
    LET n == Len(a)
        dinv == FInv(FDet(a))
        cof(i, j) == IF n = 1 THEN 1
                     ELSE FMod(Pow(-1, i + j) * FDet(Minor(a, i, j)))
    IN [i \in 1..n |-> [j \in 1..n |-> FMod(dinv * cof(i, j))]]

\* np.linalg.inv of a non-singular square matrix: cofactors over determinant
linalg_inv(a) ==
    LET n == Len(a)
        dinv == FInv(FDet(a))
        cof(i, j) == IF n = 1 THEN 1
                     ELSE FMod(Pow(-1, i + j) * FDet(Minor(a, i, j)))
    IN [i \in 1..n |-> [j \in 1..n |-> FMod(dinv * cof(j, i))]]

\* np.dot(a, b) of a matrix and a collection of signals
np_dot(a, b) ==
    [i \in 1..Len(a) |->
        [t \in 1..Len(b[1]) |->
            FSum([j \in 1..Len(b) |-> FMod(a[i][j] * b[j][t])], Len(b))]]

\* is_square = mixing_mat.shape[0] == mixing_mat.shape[1]
is_square(mixing_mat) == Len(mixing_mat) = Len(mixing_mat[1])

\* np.linalg.pinv of a matrix of one column a, not zero: a^T / (a^T a)
linalg_pinv_column(a) ==
    LET sq == FSum([k \in 1..Len(a) |-> FMod(a[k][1] * a[k][1])], Len(a))
    IN <<[k \in 1..Len(a) |-> FMod(FInv(sq) * a[k][1])]>>

\* AS._inverse_vandermonde_mat.  np.linalg.inv raises LinAlgError on a
\* singular matrix.  The value of the pseudo-inverse branch is modelled for
\* a mixing matrix of one column, and left out for the others.
inverse_vandermonde_mat(output_coll, mixing_mat) ==
    IF is_square(mixing_mat)
    THEN IF Det(mixing_mat) = 0
         THEN [kind |-> "error", by |-> "LinAlgError", solver |-> "inv"]
         ELSE [kind |-> "orders", solver |-> "inv",
               value |-> np_dot(linalg_inv(mixing_mat), output_coll)]
    ELSE IF Len(mixing_mat[1]) = 1
         THEN [kind |-> "orders", solver |-> "pinv",
               value |-> np_dot(linalg_pinv_column(mixing_mat), output_coll)]
         ELSE [kind |-> "orders", solver |-> "pinv"]

\* AS(N, gain, negative_gain, K)
ASConstruct(N, gain, negative_gain, K) ==
    /\ pc = "idle"
    /\ LET nb_test == IF K = <<>> THEN N ELSE K[1]
       IN obj' = [cls |-> "AS", N |-> N, K |-> nb_test, gain |-> gain,
                  negative_gain |-> negative_gain, K_arg |-> K,
                  factors |-> gen_amp_factors(gain, negative_gain, nb_test)]
    /\ coll' = FreshColl
    /\ pc' = "constructed"
    /\ UNCHANGED <<call, work, ret, warned>>

\* AS.process_outputs(output_coll)
ASProcessOutputs ==
    /\ pc = "outputs"
    /\ obj.cls = "AS"
    /\ LET mixing_mat == mixing_matrix(obj.factors, obj.N)
           r == inverse_vandermonde_mat(coll.output_coll, mixing_mat)
       IN /\ call' = [name |-> "AS.process_outputs", mixing_mat |-> mixing_mat]
          /\ ret' = r
          /\ pc' = IF r.kind = "error" THEN "raised" ELSE "done"
    /\ UNCHANGED <<work, warned, obj, coll>>

NextAS ==
    \/ \E N \in 1..MaxN, gain \in Gains, negative_gain \in BOOLEAN :
          \E K \in KArgs(N) : ASConstruct(N, gain, negative_gain, K)
    \/ \E signal \in Signals : GenInputs(signal)
    \/ pc = "inputs" /\ \E a \in Systems(obj.N) : Simulate(a)
    \/ ASProcessOutputs

SpecAS == Init /\ [][NextAS]_vars

(***************************************************************************)
(* Claims on AS (specification SpecAS).                                    *)
(***************************************************************************)
\* AS.process_outputs is over: it returned, or np.linalg.inv raised
ASDone == pc \in {"done", "raised"} /\ obj.cls = "AS"

\* the system holds only order n: every other coefficient is 0
PurelyOrder(n) == \A n2 \in 1..obj.N : n2 # n => coll.sys[n2] = 0

ZeroSignal == [t \in 1..Len(coll.signal) |-> 0]

\* row n of the result is the true order n, every other row is zero
OnlyRow(n) ==
    /\ ret.kind = "orders"
    /\ ret.solver = "inv"
    /\ ret.value[n] = TrueOrder(n)
    /\ \A n2 \in 1..obj.N : n2 # n => ret.value[n2] = ZeroSignal

\* C8 (as stated): for AS with K == N and the outputs of a purely order-n
\* system, process_outputs returns y in row n-1 and zero in every other row.
C8_ASRoundTrip ==
    (ASDone /\ obj.K = obj.N) =>
        \A n \in 1..obj.N : PurelyOrder(n) => OnlyRow(n)

\* C8 (amended): the same, for a mixing matrix that is not singular (the
\* factors non-zero and pairwise distinct); on a singular mixing matrix
\* np.linalg.inv raises and nothing is returned.
C8_ASRoundTripNonSingular ==
    (ASDone /\ obj.K = obj.N) =>
        IF Det(call.mixing_mat) # 0
        THEN \A n \in 1..obj.N : PurelyOrder(n) => OnlyRow(n)
        ELSE pc = "raised" /\ ret.kind = "error"

\* three orders, a system of order 2 alone, recovered in the second row
C8_Witness ==
    /\ ASDone /\ obj.K = 3 /\ obj.N = 3 /\ obj.negative_gain
    /\ PurelyOrder(2)
    /\ \E t \in 1..Len(coll.signal) : TrueOrder(2)[t] # 0
    /\ OnlyRow(2)

\* the solver AS._inverse_vandermonde_mat took
SolverUsed == ret.solver

\* C9: the mixing matrix has K rows and N columns, its entry (k, n-1) is
\* factor[k]^n for n = 1..N, and the system is solved with the exact
\* inverse if and only if K == N, with the pseudo-inverse when K != N.
C9_MixingMatrixAndSolver ==
    ASDone =>
        /\ Len(call.mixing_mat) = obj.K
        /\ \A k \in 1..obj.K :
              /\ Len(call.mixing_mat[k]) = obj.N
              /\ \A n \in 1..obj.N :
                    call.mixing_mat[k][n] = Pow(obj.factors[k], n)
        /\ SolverUsed = "inv" <=> obj.K = obj.N
        /\ obj.K # obj.N => SolverUsed = "pinv"

\* one more test signal than orders: the pseudo-inverse was used
C9_Witness ==
    /\ ASDone /\ obj.N = 2 /\ obj.K = 3 /\ obj.gain = 2
    /\ SolverUsed = "pinv"
    /\ call.mixing_mat[3] = <<obj.factors[3], obj.factors[3] * obj.factors[3]>>

\* an AS object has been constructed
ASBuilt == pc # "idle" /\ obj.cls = "AS"

\* C10: AS holds exactly K factors (K = N when K is not given): the
\* sequence gain^k when negative_gain is False, and the sign-alternating
\* sequence 1, -1, gain, -gain, gain^2, -gain^2, ... when it is True.
C10_AmpFactors ==
    ASBuilt =>
        /\ obj.K = (IF obj.K_arg = <<>> THEN obj.N ELSE obj.K_arg[1])
        /\ Len(obj.factors) = obj.K
        /\ \A k \in 0..(obj.K - 1) :
              obj.factors[k + 1] =
                 IF ~obj.negative_gain THEN Pow(obj.gain, k)
                 ELSE IF k % 2 = 0 THEN Pow(obj.gain, k \div 2)
                 ELSE -Pow(obj.gain, (k - 1) \div 2)

\* four factors with negative gains: 1, -1, 2, -2
C10_Witness ==
    /\ ASBuilt /\ obj.negative_gain /\ obj.gain = 2
    /\ obj.factors = <<1, -1, 2, -2>>

(***************************************************************************)
(* PAS (specification SpecPAS).                                            *)
(*                                                                         *)
(* The phase factors of PAS are complex and PAS takes real parts.  A       *)
(* complex number of the computation is a rational expression in w; the    *)
(* model holds its value in the field (w sent to unit_root) and, where a   *)
(* real part is taken, the value of its complex conjugate (w sent to       *)
(* 1/unit_root).  A number is real when the two agree, and its real part   *)
(* is half their sum.  Amplitudes, base signals and system coefficients    *)
(* are real.                                                               *)
(***************************************************************************)
\* the complex conjugates of PS._gen_phase_factors(nb_test):
\* rho * conj(w)**np.arange(nb_test), conj(w) = 1/w
conj_phase_factors(rho, nb_test) ==
    [k \in 1..nb_test |-> FMod(rho * FPow(FInv(unit_root(nb_test)), k - 1))]

tensordot_flatten_phase_major(amp_vec, phase_vec) ==
    [k \in 1..(Len(amp_vec) * Len(phase_vec)) |->
        FMod(amp_vec[((k - 1) % Len(amp_vec)) + 1] *
             phase_vec[((k - 1) \div Len(amp_vec)) + 1])]

\* np.tensordot(amp_vec, phase_vec, axes=0).flatten(): the outer product,
\* row after row (one row per amplitude)
tensordot_flatten(amp_vec, phase_vec) ==
    [k \in 1..(Len(amp_vec) * Len(phase_vec)) |->
        FMod(amp_vec[((k - 1) \div Len(phase_vec)) + 1] *
             phase_vec[((k - 1) % Len(phase_vec)) + 1])]

\* np.real of a collection whose conjugate is coll_conj
np_real_coll(a, a_conj) ==
    [k \in 1..Len(a) |->
        [t \in 1..Len(a[k]) |-> FMod(FInv(2) * (a[k][t] + a_conj[k][t]))]]

PAS_gen_inputs_complex(factors, factors_conj, signal) ==
    gen_inputs(factors, signal)

\* PAS.gen_inputs: 2 * np.real(_SeparationMethod.gen_inputs(self, signal));
\* the signal is real, so the conjugate of factors x signal is
\* conj(factors) x signal
PAS_gen_inputs(factors, factors_conj, signal) ==
    LET re == np_real_coll(gen_inputs(factors, signal),
                           gen_inputs(factors_conj, signal))
    IN [k \in 1..Len(re) |-> [t \in 1..Len(re[k]) |-> FMod(2 * re[k][t])]]

\* PAS(N, gain)
PASConstruct(N, gain) ==
    /\ pc = "idle"
    /\ LET nb_amp == (N + 1) \div 2
           nb_phase == 2 * N + 1
           amp_vec == gen_amp_factors(gain, FALSE, nb_amp)
       IN obj' = [cls |-> "PAS", N |-> N, K |-> nb_phase * nb_amp,
                  gain |-> gain, rho |-> 1,
                  nb_amp |-> nb_amp, nb_phase |-> nb_phase,
                  nb_term |-> (N * (N + 3)) \div 2,
                  amp_vec |-> amp_vec,
                  factors |->
                      tensordot_flatten(amp_vec,
                                        gen_phase_factors(1, nb_phase)),
                  factors_conj |->
                      tensordot_flatten(amp_vec,
                                        conj_phase_factors(1, nb_phase))]
    /\ coll' = FreshColl
    /\ pc' = "constructed"
    /\ UNCHANGED <<call, work, ret, warned>>

\* input_coll = method.gen_inputs(signal), method a PAS
PASGenInputs(signal) ==
    /\ pc = "constructed"
    /\ obj.cls = "PAS"
    /\ coll' = [coll EXCEPT !.signal = signal,
                            !.input_coll =
                                PAS_gen_inputs(obj.factors, obj.factors_conj,
                                               signal)]
    /\ pc' = "inputs"
    /\ UNCHANGED <<call, work, ret, warned, obj>>

\* a[start:stop] of Python on a sequence, 0 <= start <= stop
py_slice(a, start, stop) ==
    SubSeq(a, start + 1, IF stop < Len(a) THEN stop ELSE Len(a))

\* a[::-1]
py_reversed(a) == [i \in 1..Len(a) |-> a[Len(a) + 1 - i]]

\* tmp = np.arange(1, N+1);
\* first_nl_order = np.concatenate((tmp[1:2], tmp, tmp[::-1]))
first_nl_order(N) ==
    LET tmp == [i \in 1..N |-> i]
    IN py_slice(tmp, 1, 2) \o tmp \o py_reversed(tmp)

\* np.arange(first, N+1, 2): the orders solved for at one phase index
arange_step2(first, N) ==
    [ind \in 1..Cardinality(RangeStep2(first, N + 1)) |-> first + 2 * (ind - 1)]

\* PS._inverse_fft under the conjugate embedding: conj(w) in the place of w
inverse_fft_conj(output_coll, N) ==
    LET w == FInv(unit_root(N))
        L == Len(output_coll[1])
    IN [m \in 1..N |->
          [t \in 1..L |->
             FMod(FInv(N) *
                  FSum([k \in 1..N |->
                          FMod(output_coll[k][t] *
                               FPow(w, (N - (((k - 1) * (m - 1)) % N)) % N))],
                       N))]]

\* out_per_phase[idx] = PS._inverse_fft(output_coll[start:end], nb_phase)
\* with start = idx * nb_phase and end = start + nb_phase
out_per_phase(output_coll, nb_amp, nb_phase) ==
    [a \in 1..nb_amp |->
        inverse_fft(py_slice(output_coll, (a - 1) * nb_phase,
                             (a - 1) * nb_phase + nb_phase),
                    nb_phase)]

\* the complex conjugate of out_per_phase (the outputs are real)
out_per_phase_conj(output_coll, nb_amp, nb_phase) ==
    [a \in 1..nb_amp |->
        inverse_fft_conj(py_slice(output_coll, (a - 1) * nb_phase,
                                  (a - 1) * nb_phase + nb_phase),
                         nb_phase)]

\* signal + signal, sample by sample
add_signals(x, y) == [t \in 1..Len(x) |-> FMod(x[t] + y[t])]

\* tmp[ind] / binomial(n, q)
divide_signal(x, d) == [t \in 1..Len(x) |-> FMod(x[t] * FInv(FMod(d)))]

RECURSIVE store_terms_undivided(_, _, _, _, _)
store_terms_undivided(acc, orders, tmp, phase_idx, nb_phase) ==
    IF orders = <<>> THEN acc
    ELSE LET n == Head(orders)
             q == ((n - phase_idx) % nb_phase) \div 2
         IN store_terms_undivided(
                [terms |-> (<<n, q>> :> Head(tmp)) @@ acc.terms,
                 writes |-> Append(acc.writes,
                                   [p |-> phase_idx, n |-> n, q |-> q])],
                Tail(orders), Tail(tmp), phase_idx, nb_phase)

RECURSIVE store_terms(_, _, _, _, _)
\* for ind in range(tmp.shape[0]):
\*     n = first_nl_order[phase_idx] + 2*ind
\*     q = ((n - phase_idx) % self.nb_phase) // 2
\*     combinatorial_terms[(n, q)] = tmp[ind] / binomial(n, q)
\* acc.writes lists the assignments in the order they are made
store_terms(acc, orders, tmp, phase_idx, nb_phase) ==
    IF orders = <<>> THEN acc
    ELSE LET n == Head(orders)
             q == ((n - phase_idx) % nb_phase) \div 2
         IN store_terms(
                [terms |-> (<<n, q>> :> divide_signal(Head(tmp), binomial(n, q)))
                           @@ acc.terms,
                 writes |-> Append(acc.writes,
                                   [p |-> phase_idx, n |-> n, q |-> q])],
                Tail(orders), Tail(tmp), phase_idx, nb_phase)

RECURSIVE add_orders(_, _, _)
\* for ind in range(tmp.shape[0]):
\*     n = first_nl_order[phase_idx] + 2*ind
\*     output_by_order[n-1] += tmp[ind]
add_orders(output_by_order, orders, tmp) ==
    IF orders = <<>> THEN output_by_order
    ELSE add_orders([output_by_order EXCEPT
                        ![Head(orders)] = add_signals(@, Head(tmp))],
                    Tail(orders), Tail(tmp))

\* np.real_if_close(a): the real parts when every imaginary part is zero,
\* a itself otherwise
real_if_close(a, a_conj) == IF a = a_conj THEN np_real_coll(a, a_conj) ELSE a

RECURSIVE PAS_phase_loop(_, _, _, _, _)
\* for phase_idx in range(self.nb_phase): ... of PAS.process_outputs, from
\* phase_idx on.  Indexing first_nl_order past its end raises IndexError,
\* np.linalg.inv of a singular matrix raises LinAlgError.  The orders
\* modelled have nb_amp <= 2, where a mixing matrix that is not square has
\* one column.
PAS_phase_loop(o, per_phase, raw_mode, phase_idx, acc) ==
    IF phase_idx = o.nb_phase
    THEN [kind |-> "ok", terms |-> acc.terms, writes |-> acc.writes,
          output_by_order |-> acc.output_by_order]
    ELSE IF phase_idx + 1 > Len(first_nl_order(o.N))
    THEN [kind |-> "error", by |-> "IndexError", writes |-> acc.writes]
    ELSE LET mixing_mat == mixing_matrix(o.amp_vec, o.N)
             orders == arange_step2(first_nl_order(o.N)[phase_idx + 1], o.N)
             tmp == inverse_vandermonde_mat(
                        [a \in 1..o.nb_amp |-> per_phase[a][phase_idx + 1]],
                        [a \in 1..o.nb_amp |->
                            [j \in 1..Len(orders) |-> mixing_mat[a][orders[j]]]])
         IN IF tmp.kind = "error"
            THEN [kind |-> "error", by |-> tmp.by, writes |-> acc.writes]
            ELSE IF raw_mode
            THEN LET stored == store_terms([terms |-> acc.terms,
                                            writes |-> acc.writes],
                                           orders, tmp.value, phase_idx,
                                           o.nb_phase)
                 IN PAS_phase_loop(o, per_phase, raw_mode, phase_idx + 1,
                                   [acc EXCEPT !.terms = stored.terms,
                                               !.writes = stored.writes])
            ELSE PAS_phase_loop(o, per_phase, raw_mode, phase_idx + 1,
                                [acc EXCEPT !.output_by_order =
                                    add_orders(@, orders, tmp.value)])

\* the dict() and the np.zeros((self.N,) + sig_shape) the loop starts from
PAS_fresh(o, output_coll) ==
    [terms |-> <<>>, writes |-> <<>>,
     output_by_order |->
         [n \in 1..o.N |-> [t \in 1..Len(output_coll[1]) |-> 0]]]

\* PAS.process_outputs(output_coll, raw_mode)
PAS_process_outputs(o, output_coll, raw_mode) ==
    LET run == PAS_phase_loop(o, out_per_phase(output_coll, o.nb_amp,
                                               o.nb_phase),
                              raw_mode, 0, PAS_fresh(o, output_coll))
        run_conj == PAS_phase_loop(o, out_per_phase_conj(output_coll, o.nb_amp,
                                                         o.nb_phase),
                                   raw_mode, 0, PAS_fresh(o, output_coll))
    IN IF run.kind = "error"
       THEN [kind |-> "error", by |-> run.by, writes |-> run.writes]
       ELSE IF raw_mode
       THEN [kind |-> "terms", value |-> run.terms, writes |-> run.writes]
       ELSE [kind |-> "orders",
             value |-> real_if_close(run.output_by_order,
                                     run_conj.output_by_order),
             before_cleanup |-> run.output_by_order,
             writes |-> run.writes]

\* method.process_outputs(output_coll, raw_mode=raw_mode), method a PAS
PASProcessOutputs(raw_mode) ==
    /\ pc = "outputs"
    /\ obj.cls = "PAS"
    /\ LET r == PAS_process_outputs(obj, coll.output_coll, raw_mode)
       IN /\ call' = [name |-> "PAS.process_outputs", raw_mode |-> raw_mode,
                      out_per_phase |->
                          out_per_phase(coll.output_coll, obj.nb_amp,
                                        obj.nb_phase),
                      writes |-> r.writes]
          /\ ret' = IF r.kind = "error" THEN [kind |-> "error", by |-> r.by]
                    ELSE [kind |-> r.kind, value |-> r.value]
          /\ pc' = IF r.kind = "error" THEN "raised" ELSE "done"
    /\ UNCHANGED <<work, warned, obj, coll>>

\* base signals and systems under test of the PAS runs
PASSignals == {<<1>>, <<2>>}

PASSystems(N) == [1..N -> {0, 1}]

NextPAS ==
    \/ \E N \in 1..MaxN, gain \in Gains : PASConstruct(N, gain)
    \/ \E signal \in PASSignals : PASGenInputs(signal)
    \/ pc = "inputs" /\ \E a \in PASSystems(obj.N) : Simulate(a)
    \/ \E raw_mode \in BOOLEAN : PASProcessOutputs(raw_mode)

SpecPAS == Init /\ [][NextPAS]_vars

(***************************************************************************)
(* Claims on PAS (specification SpecPAS).                                  *)
(***************************************************************************)
\* PAS.process_outputs is over: it returned or it raised
PASDone == pc \in {"done", "raised"} /\ obj.cls = "PAS"

\* a PAS object has been constructed
PASBuilt == pc # "idle" /\ obj.cls = "PAS"

\* the amplitudes are pairwise distinct: no mixing matrix is singular
DistinctAmplitudes == obj.gain # 1 \/ obj.nb_amp = 1

\* the pairs (n, q) with 1 <= n <= N and 0 <= q <= n
TermKeys(N) == {k \in (1..N) \X (0..N) : k[2] <= k[1]}

\* C11: for every N >= 1, PAS.process_outputs(raw_mode=True) returns a
\* mapping with one entry for every pair (n, q), 1 <= n <= N and
\* 0 <= q <= n, that is nb_term = N(N+3)/2 entries, and no key is written
\* twice while the phase indices are processed.  Stated for pairwise
\* distinct amplitudes, where no matrix inversion fails.
C11_OneEntryPerTerm ==
    (PASDone /\ call.raw_mode /\ DistinctAmplitudes) =>
        /\ pc = "done"
        /\ ret.kind = "terms"
        /\ DOMAIN ret.value = TermKeys(obj.N)
        /\ Cardinality(DOMAIN ret.value) = obj.nb_term
        /\ obj.nb_term * 2 = obj.N * (obj.N + 3)
        /\ \A i, j \in 1..Len(call.writes) :
              i # j => <<call.writes[i].n, call.writes[i].q>> #
                       <<call.writes[j].n, call.writes[j].q>>

\* C12: every key (n, q) stored while phase index p is processed has
\* 1 <= n <= N, 0 <= q <= n, (n - p) mod nb_phase even,
\* q = ((n - p) mod nb_phase) / 2 and n - 2q congruent to p modulo
\* nb_phase = 2N+1.
C12_KeysMatchPhase ==
    (PASDone /\ call.raw_mode) =>
        \A i \in 1..Len(call.writes) :
            LET wr == call.writes[i]
            IN /\ wr.p \in 0..(2 * obj.N)
               /\ 1 <= wr.n /\ wr.n <= obj.N
               /\ 0 <= wr.q /\ wr.q <= wr.n
               /\ ((wr.n - wr.p) % obj.nb_phase) % 2 = 0
               /\ 2 * wr.q = (wr.n - wr.p) % obj.nb_phase
               /\ (wr.n - 2 * wr.q - wr.p) % obj.nb_phase = 0
               /\ obj.nb_phase = 2 * obj.N + 1

\* C13: for the same output collection and every order n in 1..N, row n-1
\* of the raw_mode=False result, before the real-if-close cleanup, is the
\* sum over q in 0..n of C(n,q) * term[(n,q)], term the raw_mode=True result.
C13_OrdersAreSumsOfTerms ==
    (pc = "done" /\ obj.cls = "PAS" /\ call.raw_mode) =>
        LET by_order == PAS_process_outputs(obj, coll.output_coll, FALSE)
        IN /\ by_order.kind = "orders"
           /\ \A n \in 1..obj.N :
                 by_order.before_cleanup[n] =
                    [t \in 1..Len(coll.signal) |->
                        FSum([q1 \in 1..(n + 1) |->
                                 FMod(binomial(n, q1 - 1) *
                                      ret.value[<<n, q1 - 1>>][t])],
                             n + 1)]

\* the raw terms of three orders, none of them zero, have been returned
C13_Witness ==
    /\ pc = "done" /\ obj.cls = "PAS" /\ call.raw_mode /\ obj.N = 3
    /\ \A k \in TermKeys(3) : \E t \in 1..Len(coll.signal) : ret.value[k][t] # 0
    /\ \E t \in 1..Len(coll.signal) : ret.value[<<3, 1>>][t] # ret.value[<<2, 1>>][t]

\* C14: PAS(N) has nb_amp = ceil(N/2), nb_phase = 2N+1, K = nb_amp*nb_phase
\* and K factors laid out amplitude-major,
\* factors[a*nb_phase + p] = amp_vec[a] * phase_vec[p]; process_outputs
\* takes outputs a*nb_phase .. (a+1)*nb_phase - 1 as the block of amplitude
\* a, the blocks partition 0..K-1, and the test inputs of block a are those
\* gen_inputs made with amplitude a.
C14_AmplitudeMajorLayout ==
    PASBuilt =>
        /\ 2 * obj.nb_amp >= obj.N /\ 2 * (obj.nb_amp - 1) < obj.N
        /\ obj.nb_phase = 2 * obj.N + 1
        /\ obj.K = obj.nb_amp * obj.nb_phase
        /\ Len(obj.factors) = obj.K
        /\ Len(obj.amp_vec) = obj.nb_amp
        /\ \A a \in 0..(obj.nb_amp - 1), p \in 0..(obj.nb_phase - 1) :
              /\ obj.factors[a * obj.nb_phase + p + 1] =
                    FMod(obj.amp_vec[a + 1] *
                         gen_phase_factors(1, obj.nb_phase)[p + 1])
              /\ pc \in {"inputs", "outputs", "done", "raised"} =>
                    coll.input_coll[a * obj.nb_phase + p + 1] =
                       [t \in 1..Len(coll.signal) |->
                           FMod(obj.amp_vec[a + 1] * coll.signal[t] *
                                (FPow(unit_root(obj.nb_phase), p) +
                                 FPow(FInv(unit_root(obj.nb_phase)), p)))]
        /\ \A k \in 0..(obj.K - 1) :
              Cardinality({a \in 0..(obj.nb_amp - 1) :
                              a * obj.nb_phase <= k /\
                              k < (a + 1) * obj.nb_phase}) = 1
        /\ PASDone =>
              \A a \in 0..(obj.nb_amp - 1) :
                  call.out_per_phase[a + 1] =
                     inverse_fft([p \in 1..obj.nb_phase |->
                                     coll.output_coll[a * obj.nb_phase + p]],
                                 obj.nb_phase)

\* a PAS of two amplitudes and seven phases has processed outputs that
\* differ from one amplitude block to the other
C14_Witness ==
    /\ PASDone /\ obj.N = 3 /\ obj.gain = 2
    /\ obj.nb_amp = 2 /\ obj.nb_phase = 7 /\ obj.K = 14
    /\ call.out_per_phase[1] # call.out_per_phase[2]

\* C16: PAS.gen_inputs returns, for every k in 0..K-1, the real-valued
\* signal 2*Re(factors[k] * signal) = factors[k] * signal +
\* conj(factors[k]) * signal; no test signal has an imaginary part: the
\* conjugate of the collection is the collection.
C16_TestInputsAreTwiceRealPart ==
    (PASBuilt /\ pc = "inputs") =>
        /\ Len(coll.input_coll) = obj.K
        /\ \A k \in 1..obj.K :
              coll.input_coll[k] =
                 [t \in 1..Len(coll.signal) |->
                     FMod(obj.factors[k] * coll.signal[t] +
                          obj.factors_conj[k] * coll.signal[t])]
        /\ PAS_gen_inputs(obj.factors_conj, obj.factors, coll.signal) =
              coll.input_coll

\* test inputs made from a factor that is not real and a signal not zero
C16_Witness ==
    /\ PASBuilt /\ pc = "inputs" /\ obj.N = 2
    /\ obj.factors[2] # obj.factors_conj[2]
    /\ coll.signal[1] # 0
    /\ coll.input_coll[2] # gen_inputs(obj.factors, coll.signal)[2]

(***************************************************************************)
(* gen_inputs of _SeparationMethod, as AS and PS inherit it                *)
(* (specification SpecGen).  The constructor checks nothing: a method      *)
(* object may hold any factor vector, the empty one included, and          *)
(* gen_inputs is handed any signal, the empty one included.                *)
(***************************************************************************)
\* factor vectors handed to _SeparationMethod(N, K, factors)
FactorVectors == UNION {[1..len -> 0..MaxVal] : len \in 0..MaxRows}

\* _SeparationMethod(N, K, factors)
BaseConstruct(N, K, factors) ==
    /\ pc = "idle"
    /\ obj' = [cls |-> "_SeparationMethod", N |-> N, K |-> K,
               factors |-> factors]
    /\ coll' = FreshColl
    /\ pc' = "constructed"
    /\ UNCHANGED <<call, work, ret, warned>>

NextGen ==
    \/ \E N \in 1..MaxN, rho \in Rhos : PSConstruct(N, rho)
    \/ \E N \in 1..MaxN, gain \in Gains, negative_gain \in BOOLEAN :
          \E K \in KArgs(N) : ASConstruct(N, gain, negative_gain, K)
    \/ \E factors \in FactorVectors :
          BaseConstruct(Len(factors), Len(factors), factors)
    \/ \E signal \in Signals \cup {<<>>} : GenInputs(signal)

SpecGen == Init /\ [][NextGen]_vars

(***************************************************************************)
(* Claims on gen_inputs (specification SpecGen).                           *)
(***************************************************************************)
\* the step of a gen_inputs call on an AS or a PS object
GenInputsOfASorPS ==
    /\ pc = "constructed" /\ pc' = "inputs"
    /\ obj.cls \in {"AS", "PS"}

\* C15: gen_inputs of AS and PS returns exactly K test signals, test signal
\* k being factors[k] * signal with the shape of signal, and the call
\* changes neither the factors, N, K nor any other field of the method
\* object, nor the signal it was handed.
C15_GenInputsPure ==
    [][GenInputsOfASorPS =>
          /\ obj' = obj
          /\ Len(obj'.factors) = obj.K
          /\ Len(coll'.input_coll) = obj.K
          /\ \A k \in 1..obj.K :
                /\ Len(coll'.input_coll[k]) = Len(coll'.signal)
                /\ \A t \in 1..Len(coll'.signal) :
                      coll'.input_coll[k][t] =
                         FMod(obj.factors[k] * coll'.signal[t])]_vars

\* an AS of four factors has made its four test signals from a signal that
\* is not zero
C15_Witness ==
    /\ pc = "inputs" /\ obj.cls = "AS" /\ obj.K = 4 /\ obj.negative_gain
    /\ obj.gain = 2
    /\ Len(coll.input_coll) = 4
    /\ coll.signal # <<>>
    /\ coll.signal[1] # 0
    /\ coll.input_coll[4][1] = FMod(-2 * coll.signal[1])

\* C17: gen_inputs raises when the factor vector is empty or the signal is
\* empty; it returns no test-signal collection for such input: whenever it
\* has returned, the factor vector and the signal were not empty.
C17_RaisesOnEmptyInput ==
    pc = "inputs" => (obj.factors # <<>> /\ coll.signal # <<>>)

(***************************************************************************)
(* Error measures: measures.py and safe_db of order_separation.py          *)
(* (specification SpecMeasures).                                           *)
(*                                                                         *)
(* Samples are integers.  A number of the computation is held exactly as   *)
(* sgn * sqrt(sq_num / sq_den), sq_num / sq_den in lowest terms: integers, *)
(* RMS values and their quotients all have this form.  The outcomes of a   *)
(* floating-point division and of log10 that are no such number are the    *)
(* records Inf, NegInf and NaN.  10*log10(x) of a number x > 0 is held as  *)
(* the record [kind |-> "dB", of |-> x].                                   *)
(***************************************************************************)
MaxSamples == 2

\* signals handed to the measures
SampleSignals == [1..MaxSamples -> {0, 1}]

\* orders of the rows of a collection and of the keys of a kernel dictionary
MeasuredOrders == {1, 2}

Inf == [kind |-> "inf"]
NegInf == [kind |-> "-inf"]
NaN == [kind |-> "nan"]

RECURSIVE GCD(_, _)
GCD(a, b) == IF b = 0 THEN a ELSE GCD(b, a % b)

\* the number sgn * sqrt(a / b), a >= 0 and b > 0, in lowest terms
Number(sgn, a, b) ==
    IF a = 0 THEN [kind |-> "number", sgn |-> 0, sq_num |-> 0, sq_den |-> 1]
    ELSE [kind |-> "number", sgn |-> sgn,
          sq_num |-> a \div GCD(a, b), sq_den |-> b \div GCD(a, b)]

\* the integer k as a number
IntNumber(k) == Number(IF k < 0 THEN -1 ELSE 1, k * k, 1)

One == IntNumber(1)

\* rms of mathbox: the square root of the mean of the squares
rms(x) ==
    Number(1, SumOver([t \in 1..Len(x) |-> x[t] * x[t]], 1..Len(x)), Len(x))

\* a - b of two arrays, sample by sample
np_subtract(a, b) == [t \in 1..Len(a) |-> a[t] - b[t]]

\* num / den of numpy floats: a division by zero gives nan (0/0) or an
\* infinity and raises nothing
np_divide(num, den) ==
    IF den.sgn = 0
    THEN IF num.sgn = 0 THEN NaN ELSE IF num.sgn > 0 THEN Inf ELSE NegInf
    ELSE Number(num.sgn * den.sgn, num.sq_num * den.sq_den,
                num.sq_den * den.sq_num)

\* 10 * np.log10(x)
ten_log10(x) ==
    IF x.kind = "number"
    THEN IF x.sgn > 0 THEN [kind |-> "dB", of |-> x]
         ELSE IF x.sgn = 0 THEN NegInf ELSE NaN
    ELSE IF x = Inf THEN Inf ELSE NaN

safe_db_unguarded(num, den) == ten_log10(np_divide(num, den))

\* safe_db of order_separation.py
safe_db(num, den) ==
    IF den.sgn = 0 THEN Inf ELSE ten_log10(np_divide(num, den))

\* separation_error: one value per row; rms_ref[rms_ref == 0] = 1
separation_error(signals_ref, signals_est, db) ==
    [i \in DOMAIN signals_ref |->
        LET rms_error == rms(np_subtract(signals_ref[i], signals_est[i]))
            rms_ref == IF rms(signals_ref[i]).sgn = 0 THEN One
                       ELSE rms(signals_ref[i])
        IN IF db THEN safe_db(rms_error, rms_ref)
           ELSE np_divide(rms_error, rms_ref)]

\* sorted(kernels_est.items()): the keys in ascending order
RECURSIVE sorted_keys(_)
sorted_keys(S) ==
    IF S = {} THEN <<>>
    ELSE LET least == CHOOSE x \in S : \A y \in S : x <= y
         IN <<least>> \o sorted_keys(S \ {least})

\* identification_error: one value per estimated kernel, orders ascending
identification_error(kernels_ref, kernels_est, db) ==
    LET keys == sorted_keys(DOMAIN kernels_est)
    IN [i \in 1..Len(keys) |->
          LET order == keys[i]
              rms_error ==
                  IF order \in DOMAIN kernels_ref
                  THEN rms(np_subtract(kernels_est[order], kernels_ref[order]))
                  ELSE rms(kernels_est[order])
              rms_ref ==
                  IF order \in DOMAIN kernels_ref
                  THEN IF rms(kernels_ref[order]).sgn = 0 THEN One
                       ELSE rms(kernels_ref[order])
                  ELSE One
          IN IF db THEN safe_db(rms_error, rms_ref)
             ELSE np_divide(rms_error, rms_ref)]

\* evaluation_error
evaluation_error(signal_ref, signal_est, db) ==
    LET rms_error == rms(np_subtract(signal_est, signal_ref))
        rms_ref == rms(signal_ref)
    IN IF db THEN safe_db(rms_error, rms_ref)
       ELSE np_divide(rms_error, rms_ref)

\* kernel dictionaries: a kernel for some of the orders
KernelDicts ==
    UNION {[keys -> SampleSignals] : keys \in SUBSET MeasuredOrders}

\* separation_error(signals_ref, signals_est, db)
SeparationError(signals_ref, signals_est, db) ==
    /\ pc = "idle"
    /\ call' = [name |-> "separation_error", ref |-> signals_ref,
                est |-> signals_est, db |-> db]
    /\ ret' = [kind |-> "value",
               value |-> separation_error(signals_ref, signals_est, db)]
    /\ pc' = "done"
    /\ UNCHANGED <<work, warned, obj, coll>>

\* identification_error(kernels_ref, kernels_est, db)
IdentificationError(kernels_ref, kernels_est, db) ==
    /\ pc = "idle"
    /\ call' = [name |-> "identification_error", ref |-> kernels_ref,
                est |-> kernels_est, db |-> db]
    /\ ret' = [kind |-> "value",
               value |-> identification_error(kernels_ref, kernels_est, db)]
    /\ pc' = "done"
    /\ UNCHANGED <<work, warned, obj, coll>>

\* evaluation_error(signal_ref, signal_est, db)
EvaluationError(signal_ref, signal_est, db) ==
    /\ pc = "idle"
    /\ call' = [name |-> "evaluation_error", ref |-> signal_ref,
                est |-> signal_est, db |-> db]
    /\ ret' = [kind |-> "value",
               value |-> evaluation_error(signal_ref, signal_est, db)]
    /\ pc' = "done"
    /\ UNCHANGED <<work, warned, obj, coll>>

\* safe_db(num, den) on two scalars
SafeDb(num, den) ==
    /\ pc = "idle"
    /\ call' = [name |-> "safe_db", num |-> num, den |-> den]
    /\ ret' = [kind |-> "value",
               value |-> safe_db(IntNumber(num), IntNumber(den))]
    /\ pc' = "done"
    /\ UNCHANGED <<work, warned, obj, coll>>

NextMeasures ==
    \/ \E signals_ref, signals_est \in [MeasuredOrders -> SampleSignals],
          db \in BOOLEAN : SeparationError(signals_ref, signals_est, db)
    \/ \E kernels_ref, kernels_est \in KernelDicts, db \in BOOLEAN :
          IdentificationError(kernels_ref, kernels_est, db)
    \/ \E signal_ref, signal_est \in SampleSignals, db \in BOOLEAN :
          EvaluationError(signal_ref, signal_est, db)
    \/ \E num, den \in (-MaxVal)..MaxVal : SafeDb(num, den)

SpecMeasures == Init /\ [][NextMeasures]_vars

(***************************************************************************)
(* Claims on the error measures (specification SpecMeasures).              *)
(***************************************************************************)
\* the all-zero signal of the measures
ZeroSamples == [t \in 1..MaxSamples |-> 0]

\* C18: separation_error, identification_error and evaluation_error each
\* replace a reference RMS that is exactly zero by 1 before dividing: with
\* an all-zero reference the linear (db=False) result is the finite value
\* rms(error), and with an all-zero estimate as well it is 0.
C18_ZeroReferenceRmsIsOne ==
    (pc = "done" /\ call.name \in {"separation_error", "identification_error",
                                   "evaluation_error"} /\ ~call.db) =>
        IF call.name = "evaluation_error"
        THEN call.ref = ZeroSamples =>
                /\ ret.value = rms(call.est)
                /\ call.est = ZeroSamples => ret.value = IntNumber(0)
        ELSE \A order \in DOMAIN call.ref :
                (call.ref[order] = ZeroSamples /\ order \in DOMAIN call.est) =>
                    LET i == CHOOSE j \in 1..Len(ret.value) :
                                 sorted_keys(DOMAIN call.est)[j] = order
                    IN /\ ret.value[i] = rms(call.est[order])
                       /\ call.est[order] = ZeroSamples =>
                             ret.value[i] = IntNumber(0)

\* C19: safe_db(num, den) returns positive infinity whenever den == 0, for
\* every num, num == 0 included, and raises nothing; when den != 0 it
\* returns 10*log10(num/den).
C19_SafeDb ==
    (pc = "done" /\ call.name = "safe_db") =>
        /\ ret.kind = "value"
        /\ call.den = 0 => ret.value = Inf
        /\ call.den # 0 =>
              ret.value = ten_log10(np_divide(IntNumber(call.num),
                                              IntNumber(call.den)))

\* safe_db(0, 0) has returned
C19_Witness ==
    /\ pc = "done" /\ call.name = "safe_db"
    /\ call.num = 0 /\ call.den = 0
    /\ ret.value = Inf

(***************************************************************************)
(* The data flow of KLS (specification SpecKLS): the design matrix built   *)
(* from the per-order basis matrices, its least-squares solution, and the  *)
(* split of the solution into kernels.                                     *)
(*                                                                         *)
(* A matrix is held as the sequence of its columns and a column as its     *)
(* label [n, j]: column j of the basis matrix of order n.  The solution    *)
(* vector has one coefficient per column of the design matrix, held under  *)
(* the label of its column.  A dict is the sequence of its keys in         *)
(* insertion order, each with its value.                                   *)
(***************************************************************************)
\* the insertion orders of a dict with the keys 1..N
KeyOrders(N) ==
    {ks \in [1..N -> 1..N] : \A i, j \in 1..N : i # j => ks[i] # ks[j]}

\* number of columns of the basis matrix of order n: one per coefficient of
\* the triangular kernel
basis_width(M, n) == nb_coeff_in_kernel(M, n, "tri")

\* the basis matrix of order n
basis_matrix(M, n) == [j \in 1..basis_width(M, n) |-> [n |-> n, j |-> j]]

\* a dict of the basis matrices of orders 1..N, inserted in the order keys
basis_dict(M, keys) ==
    [i \in 1..Len(keys) |-> [key |-> keys[i], val |-> basis_matrix(M, keys[i])]]

RECURSIVE np_concatenate(_)
\* np.concatenate(matrices, axis=1): the columns of each matrix in turn
np_concatenate(matrices) ==
    IF matrices = <<>> THEN <<>>
    ELSE Head(matrices) \o np_concatenate(Tail(matrices))

\* sorted(phi_dict.items()): the items by ascending key
sorted_items(phi_dict) ==
    LET keys == sorted_keys({phi_dict[i].key : i \in 1..Len(phi_dict)})
    IN [i \in 1..Len(keys) |->
          phi_dict[CHOOSE k \in 1..Len(phi_dict) : phi_dict[k].key = keys[i]]]

KLS_construct_phi_unsorted(M, N, phi, computed) ==
    IF phi.type = "ndarray" THEN phi.val
    ELSE LET phi_dict == IF phi.type = "None" THEN computed ELSE phi.val
         IN np_concatenate([i \in 1..Len(phi_dict) |-> phi_dict[i].val])

\* _KLS_construct_phi; computed is what volterra_basis_by_order returns
KLS_construct_phi(M, N, phi, computed) ==
    IF phi.type = "ndarray" THEN phi.val
    ELSE LET phi_dict == IF phi.type = "None" THEN computed ELSE phi.val
             items == sorted_items(phi_dict)
         IN np_concatenate([i \in 1..Len(items) |-> items[i].val])

\* _KLS_core_computation: the least-squares solution, one coefficient per
\* column of the combinatorial matrix
KLS_core_computation(combinatorial_matrix) ==
    [i \in 1..Len(combinatorial_matrix) |->
        [coeff_of |-> combinatorial_matrix[i]]]

\* vector_to_all_kernels: the flat vector cut into the kernels of orders
\* 1..N, in this order
vector_to_all_kernels(f, M, N) ==
    [n \in 1..N |->
        LET start == SumOver([n2 \in 1..(n - 1) |-> basis_width(M, n2)],
                             1..(n - 1))
        IN SubSeq(f, start + 1, start + basis_width(M, n))]

\* the phi argument of KLS for orders 1..N: None, a dict or an array
PhiArgs(M, N) ==
    {[type |-> "None"]}
    \cup {[type |-> "dict", val |-> basis_dict(M, keys)] : keys \in KeyOrders(N)}
    \cup {[type |-> "ndarray",
           val |-> np_concatenate([i \in 1..N |-> basis_matrix(M, keys[i])])] :
          keys \in KeyOrders(N)}

\* KLS(input_sig, output_sig, M, N, phi, form), nb_data = input_sig.shape[0];
\* keys is the insertion order of the dict volterra_basis_by_order returns
\* when phi is None (no dict is computed otherwise)
KLSRun(nb_data, M, N, form, phi, keys) ==
    /\ pc = "idle"
    /\ LET c == KLS_check_feasability(nb_data, M, N, form)
           design == KLS_construct_phi(M, N, phi, basis_dict(M, keys))
           f == KLS_core_computation(design)
       IN IF ~c.ok
          THEN /\ call' = [name |-> "KLS", nb_data |-> nb_data, M |-> M,
                           N |-> N, form |-> form, phi |-> phi,
                           computed |-> <<>>, design |-> <<>>]
               /\ ret' = [kind |-> "error", by |-> "assert_enough_data_samples"]
               /\ pc' = "raised"
          ELSE /\ call' = [name |-> "KLS", nb_data |-> nb_data, M |-> M,
                           N |-> N, form |-> form, phi |-> phi,
                           computed |-> IF phi.type = "None" THEN keys ELSE <<>>,
                           design |-> design]
               /\ ret' = [kind |-> "kernels",
                          value |-> vector_to_all_kernels(f, M, N)]
               /\ pc' = "done"
    /\ UNCHANGED <<work, warned, obj, coll>>

NextKLS ==
    \E nb_data \in 1..MaxData, M \in 1..MaxM, N \in 1..MaxN, form \in Forms :
        \E phi \in PhiArgs(M, N) :
            \E keys \in IF phi.type = "None" THEN KeyOrders(N) ELSE {<<>>} :
                KLSRun(nb_data, M, N, form, phi, keys)

SpecKLS == Init /\ [][NextKLS]_vars

(***************************************************************************)
(* Claims on the data flow of KLS (specification SpecKLS).                 *)
(***************************************************************************)
\* KLS has returned kernels from a basis mapping, computed or passed
KLSDoneFromMapping ==
    pc = "done" /\ call.name = "KLS" /\ call.phi.type \in {"None", "dict"}

\* C20: KLS concatenates the per-order basis matrices column-wise in
\* ascending order of n (1, 2, ..., N), whatever the insertion order of the
\* basis mapping, computed or passed as phi, and the flat solution vector
\* is split into per-order kernels in the same order: the kernel of order n
\* holds the coefficients of the columns of the order-n basis matrix.
C20_AscendingOrderConcatenation ==
    KLSDoneFromMapping =>
        /\ call.design =
              np_concatenate([n \in 1..call.N |-> basis_matrix(call.M, n)])
        /\ \A n \in 1..call.N :
              /\ Len(ret.value[n]) = basis_width(call.M, n)
              /\ \A j \in 1..basis_width(call.M, n) :
                    ret.value[n][j] = [coeff_of |-> [n |-> n, j |-> j]]

\* kernels returned from a dict whose keys were inserted in descending
\* order, the basis matrices of different widths
C20_Witness ==
    /\ KLSDoneFromMapping /\ call.phi.type = "dict" /\ call.N = 2
    /\ call.phi.val[1].key = 2 /\ call.phi.val[2].key = 1
    /\ basis_width(call.M, 1) # basis_width(call.M, 2)
    /\ Len(ret.value[2]) = basis_width(call.M, 2)

(***************************************************************************)
(* Data flow of the identification entry points (specification SpecFlow). *)
(* The calls pass their feasibility check, which Spec models.              *)
(* An array is a record that names its content; an operation on arrays     *)
(* gives the record of the operation and of its operands.  What the caller *)
(* passed is held in coll, the locals of the call in flight in call.       *)
(***************************************************************************)
\* the keys of the mapping volterra_basis_by_term returns for orders 1..N:
\* (n, k) for every order n and every k in range(1 + n//2)
by_term_keys(N) ==
    {key \in (1..N) \X (0..(N \div 2)) : key[2] <= key[1] \div 2}

\* the basis matrix of the term (n, k): as many columns as that of order n
term_basis_matrix(M, n, k) ==
    [basis |-> <<n, k>>, width |-> basis_width(M, n)]

\* volterra_basis_by_term(signal, M, N)
volterra_basis_by_term(M, N) ==
    [key \in by_term_keys(N) |-> term_basis_matrix(M, key[1], key[2])]

\* volterra_basis_by_order(signal, M, N)
volterra_basis_by_order(M, N) ==
    [n \in 1..N |-> [basis |-> <<n>>, width |-> basis_width(M, n)]]

\* _cplx_to_real(sig_cplx, cast_mode) of an array named by its record
cplx_to_real(sig_cplx, cast_mode) ==
    [cast |-> cast_mode_after_check(cast_mode), of |-> sig_cplx]

\* dict.get(key, default)
dict_get(d, key, default) == IF key \in DOMAIN d THEN d[key] ELSE default

\* np.zeros(shape)
np_zeros(shape) == [zeros |-> shape]

\* phaseKLS, "for n in range(1, N+1)": the Q factor of each order, the
\* widths, and r_terms[(n, k)] for k in range((n+1)//2); the R factor stored
\* under (n, 0) by the qr call is overwritten by the k = 0 pass of the loop
phaseKLS_r_terms(phi, N, cast_mode) ==
    [key \in {kk \in (1..N) \X (0..N) : kk[2] < (kk[1] + 1) \div 2} |->
        [weight |-> binomial(key[1], key[2]),
         qT |-> key[1] - 2 * key[2],
         phi |-> cplx_to_real(phi[key], cast_mode)]]

phaseKLS_size(phi, N) == [n \in 1..N |-> phi[<<n, 0>>].width]

\* y_phase[n] = np.dot(q_n.T, _cplx_to_real(output_by_phase[n], cast_mode))
phaseKLS_y_phase(output_by_phase, N, cast_mode) ==
    [n \in 1..N |-> [qT |-> n,
                     sig |-> cplx_to_real(output_by_phase[n], cast_mode)]]

\* the orders of one parity subset: range(1+is_odd, N+1, 2)
phaseKLS_orders(is_odd, N) == arange_step2(1 + b2i(is_odd), N)

\* a block system whose blocks are all looked up under the term index 0
phaseKLS_blocks_term_zero(r_terms, size, is_odd, N) ==
    LET orders == phaseKLS_orders(is_odd, N)
    IN [i \in 1..Len(orders) |->
          LET p == orders[i]
              first == 1 - ((p + 1) \div 2)
              stop == 1 + ((N - p) \div 2)
          IN [c \in 1..(stop - first) |->
                LET k == first + c - 1
                IN [row |-> p, col |-> p + 2 * k, k |-> k,
                    block |-> dict_get(r_terms, <<p + 2 * k, 0>>,
                                       np_zeros(<<size[p], size[p + 2 * k]>>))]]]

\* the np.bmat argument: one row of blocks per order p of the subset, one
\* block per k in range(1-(p+1)//2, 1+(N-p)//2)
phaseKLS_blocks(r_terms, size, is_odd, N) ==
    LET orders == phaseKLS_orders(is_odd, N)
    IN [i \in 1..Len(orders) |->
          LET p == orders[i]
              first == 1 - ((p + 1) \div 2)
              stop == 1 + ((N - p) \div 2)
          IN [c \in 1..(stop - first) |->
                LET k == first + c - 1
                IN [row |-> p, col |-> p + 2 * k, k |-> k,
                    block |-> dict_get(r_terms, <<p + 2 * k, k>>,
                                       np_zeros(<<size[p], size[p + 2 * k]>>))]]]

\* number of columns of a block
block_width(b) == IF "zeros" \in DOMAIN b THEN b.zeros[2] ELSE b.phi.of.width

\* sc_lin.solve_triangular(r, y): one coefficient per column of r
solve_triangular(r) ==
    np_concatenate([c \in 1..Len(r[1]) |->
        [j \in 1..block_width(r[1][c].block) |->
            [coeff_of |-> [n |-> r[1][c].col, j |-> j]]]])

RECURSIVE phaseKLS_slices(_, _, _, _, _)
\* "index = 0; for n in range(1+is_odd, N+1, 2): ..." over the orders left:
\* the slice bounds and the slice handed to vector_to_kernel for each order
phaseKLS_slices(f, orders, index, M, form) ==
    IF orders = <<>> THEN <<>>
    ELSE LET n == Head(orders)
             nb_term == nb_coeff_in_kernel(M, n, form)
         IN <<[n |-> n, start |-> index, stop |-> index + nb_term,
               vec |-> py_slice(f, index, index + nb_term)]>>
            \o phaseKLS_slices(f, Tail(orders), index + nb_term, M, form)

\* the parity flags in the order of "for is_odd in [False, True]"
ParityLoop == <<FALSE, TRUE>>

\* d[key] = val on a dict held as a function
dict_set(d, key, val) ==
    [x \in (DOMAIN d) \cup {key} |-> IF x = key THEN val ELSE d[x]]

\* an array the caller owns
caller_array(name, key) == [array |-> name, key |-> key]

NoPhi == [type |-> "None"]

TermModes == {"mean", "mmse"}

\* the phi a caller may pass for the orders 1..N: None, the mapping of the
\* bases of orders 1..N, or one that also holds the bases of order N+1
FlowPhiArgs(m, M, N) ==
    {NoPhi} \cup
    {[type |-> "dict",
      val |-> IF m \in {"KLS", "orderKLS"}
              THEN volterra_basis_by_order(M, N2)
              ELSE volterra_basis_by_term(M, N2)] : N2 \in {N, N + 1}}

\* the outputs a caller passes: output_sig, output_by_order (an array of
\* nb_out rows, indexed from 0), output_by_term (keyed by (n, k)) or
\* output_by_phase (indexed by the phase, 1..N used)
FlowOutputs(m, N, nb_out) ==
    CASE m = "KLS" -> [i \in {0} |-> caller_array("output_sig", <<>>)]
      [] m = "orderKLS" ->
            [i \in 0..(nb_out - 1) |-> caller_array("output_by_order", <<i>>)]
      [] m = "termKLS" ->
            [key \in by_term_keys(N) |-> caller_array("output_by_term", key)]
      [] OTHER ->
            [n \in 1..N |-> caller_array("output_by_phase", <<n>>)]

\* the mode argument (termKLS alone has one; its default is 'mmse')
FlowModes(m) == IF m = "termKLS" THEN TermModes ELSE {"mmse"}

\* the number of rows of output_by_order: one per order of the call, or one
\* more
FlowRows(m, N) == IF m = "orderKLS" THEN {N, N + 1} ELSE {N}

\* the statement a call starts with once phi is there
FirstStep(m, mode) ==
    CASE m = "KLS"      -> "kls_solve"
      [] m = "orderKLS" -> "order_loop"
      [] m = "termKLS"  -> IF mode = "mean" THEN "term_zeros"
                           ELSE "term_mmse"
      [] m = "phaseKLS" -> "phase_qr"
      [] m = "iterKLS"  -> "iter_loop"

\* the locals of a call before its first statement
FirstLocals(m, N) ==
    CASE m = "phaseKLS" -> [i |-> 1, r_terms |-> <<>>, size |-> <<>>,
                            y_phase |-> <<>>, r |-> <<>>, f |-> <<>>]
      [] m = "iterKLS"  -> [i |-> 1, f |-> <<>>]
      [] m = "termKLS"  -> [i |-> 1, f |-> <<>>]
      [] m = "orderKLS" -> [i |-> 1]
      [] m = "KLS"      -> [i |-> 1]

\* an entry point is called; its feasibility check passes and phi is
\* computed when the caller passed None
FlowCall(m, M, N, form, cast_mode, mode, phi, nb_out) ==
    /\ pc = "idle"
    /\ coll' = [state |-> "args",
                input_sig |-> caller_array("input_sig", <<>>),
                outputs |-> FlowOutputs(m, N, nb_out),
                phi |-> phi]
    /\ call' = [name |-> m, M |-> M, N |-> N, form |-> form,
                cast_mode |-> cast_mode, mode |-> mode,
                phi |-> IF phi.type # "None" THEN phi.val
                        ELSE IF m \in {"KLS", "orderKLS"}
                             THEN volterra_basis_by_order(M, N)
                             ELSE volterra_basis_by_term(M, N),
                locals |-> FirstLocals(m, N)]
    /\ pc' = FirstStep(m, mode)
    /\ work' = <<>>
    /\ ret' = NoRet
    /\ UNCHANGED <<warned, obj>>

\* vector_to_kernel(vec, M, n, form)
vector_to_kernel(vec, M, n, form) == [order |-> n, form |-> form, vec |-> vec]

\* phaseKLS, "for n in range(1, N+1)" and "for n, q_n in q_by_order.items()"
PhaseFactorise ==
    /\ pc = "phase_qr"
    /\ call' = [call EXCEPT
          !.locals.r_terms = phaseKLS_r_terms(call.phi, call.N, call.cast_mode),
          !.locals.size = phaseKLS_size(call.phi, call.N),
          !.locals.y_phase = phaseKLS_y_phase(coll.outputs, call.N,
                                              call.cast_mode)]
    /\ pc' = "phase_solve"
    /\ work' = Append(work, [op |-> "qr", n |-> 0])
    /\ UNCHANGED <<ret, warned, obj, coll>>

\* one pass of "for is_odd in [False, True]": y, r and f[is_odd]
PhaseSolve ==
    /\ pc = "phase_solve"
    /\ LET is_odd == ParityLoop[call.locals.i]
           orders == phaseKLS_orders(is_odd, call.N)
           r == phaseKLS_blocks(call.locals.r_terms, call.locals.size,
                                is_odd, call.N)
       IN IF orders = <<>>
          THEN \* np.concatenate of an empty list
               /\ pc' = "raised"
               /\ ret' = [kind |-> "error", by |-> "ValueError"]
               /\ call' = call
               /\ work' = work
          ELSE /\ call' = [call EXCEPT
                     !.locals.i = @ + 1,
                     !.locals.r = dict_set(@, is_odd, r),
                     !.locals.f = dict_set(@, is_odd, solve_triangular(r))]
               /\ pc' = IF call.locals.i = Len(ParityLoop)
                        THEN "phase_slice" ELSE "phase_solve"
               /\ work' = Append(work, [op |-> "solve_triangular",
                                        n |-> b2i(is_odd)])
               /\ ret' = ret
    /\ UNCHANGED <<warned, obj, coll>>

\* the slices cut from the two solution vectors, is_odd = False first
phaseKLS_all_slices(f, M, N, form) ==
    np_concatenate([i \in 1..Len(ParityLoop) |->
        phaseKLS_slices(f[ParityLoop[i]], phaseKLS_orders(ParityLoop[i], N),
                        0, M, form)])

\* "for is_odd in [False, True]: index = 0 ..." and "return kernels"
PhaseSlice ==
    /\ pc = "phase_slice"
    /\ LET slices == phaseKLS_all_slices(call.locals.f, call.M, call.N,
                                         call.form)
           at(n) == CHOOSE i \in 1..Len(slices) : slices[i].n = n
           keys == {slices[i].n : i \in 1..Len(slices)}
       IN /\ ret' = [kind |-> "kernels", keys |-> keys,
                     value |-> [n \in keys |->
                         vector_to_kernel(slices[at(n)].vec, call.M, n,
                                          call.form)]]
          /\ work' = work \o [i \in 1..Len(slices) |->
                                 [op |-> "slice", n |-> slices[i].n]]
    /\ pc' = "done"
    /\ UNCHANGED <<call, warned, obj, coll>>


(***************************************************************************)
(* Claims on phaseKLS (specification SpecFlow).                            *)
(***************************************************************************)
\* a phaseKLS call is over, returned or raised
PhaseOver == call.name = "phaseKLS" /\ pc \in {"done", "raised"}

\* the slices cut from the solution vector of one parity subset
PhaseSlicesOf(is_odd) ==
    phaseKLS_slices(call.locals.f[is_odd], phaseKLS_orders(is_odd, call.N),
                    0, call.M, call.form)

\* slices taken in ascending n, each of length nb_coeff_in_kernel(M, n,
\* form), contiguous and disjoint, and covering the vector f
SlicesPartition(slices, f) ==
    /\ slices # <<>>
    /\ slices[1].start = 0
    /\ \A i \in 1..Len(slices) :
          slices[i].stop - slices[i].start =
              nb_coeff_in_kernel(call.M, slices[i].n, call.form)
    /\ \A i \in 1..(Len(slices) - 1) :
          /\ slices[i].n < slices[i + 1].n
          /\ slices[i + 1].start = slices[i].stop
    /\ slices[Len(slices)].stop >= Len(f)
    /\ np_concatenate([i \in 1..Len(slices) |-> slices[i].vec]) = f

\* C21: for every N >= 1, phaseKLS returns kernels keyed by exactly the
\* orders 1..N, and within the solution vector of each parity subset the
\* per-order slices of length nb_coeff_in_kernel(M, n, form) are taken in
\* ascending n, are contiguous and disjoint, and cover the whole vector.
C21_SlicesCoverSolution ==
    PhaseOver =>
        /\ ret.kind = "kernels"
        /\ ret.keys = 1..call.N
        /\ \A is_odd \in BOOLEAN :
              SlicesPartition(PhaseSlicesOf(is_odd), call.locals.f[is_odd])

\* C21 restricted to N >= 2 (both parity subsets hold an order)
C21_HoldsFromTwoOrders ==
    (PhaseOver /\ call.N >= 2) =>
        /\ ret.kind = "kernels"
        /\ ret.keys = 1..call.N
        /\ \A is_odd \in BOOLEAN :
              SlicesPartition(PhaseSlicesOf(is_odd), call.locals.f[is_odd])

\* phaseKLS has assembled the block system of the subset is_odd
PhaseAssembled(is_odd) ==
    /\ call.name = "phaseKLS"
    /\ pc \in {"phase_solve", "phase_slice", "done", "raised"}
    /\ is_odd \in DOMAIN call.locals.r

\* the block phaseKLS computes for row order p and column order n >= p
CoupledBlock(p, n) ==
    LET k == (n - p) \div 2
    IN [weight |-> binomial(n, k), qT |-> p,
        phi |-> cplx_to_real(call.phi[<<n, k>>], call.cast_mode)]

\* C22: in the block system phaseKLS assembles for one parity subset, the
\* block at (row order p, column order n) is a zero block whenever n < p,
\* and for n >= p it is C(n,k) * transpose(Q_p) * phi[(n,k)] with
\* k = (n-p)/2; rows and columns both run over the subset's orders in
\* ascending order, so the system is block upper triangular.
C22_BlockUpperTriangular ==
    \A is_odd \in BOOLEAN :
        PhaseAssembled(is_odd) =>
            LET r == call.locals.r[is_odd]
                orders == phaseKLS_orders(is_odd, call.N)
            IN /\ Len(r) = Len(orders)
               /\ \A i \in 1..Len(r) :
                     /\ Len(r[i]) = Len(orders)
                     /\ \A c \in 1..Len(r[i]) :
                           /\ r[i][c].row = orders[i]
                           /\ r[i][c].col = orders[c]
                           /\ IF orders[c] < orders[i]
                              THEN r[i][c].block =
                                     np_zeros(<<call.locals.size[orders[i]],
                                                call.locals.size[orders[c]]>>)
                              ELSE r[i][c].block =
                                     CoupledBlock(orders[i], orders[c])

\* the system of the orders 1 and 3 is assembled: a zero block under the
\* diagonal and the block of weight C(3,1) = 3 above it
C22_Witness ==
    /\ PhaseAssembled(FALSE)
    /\ call.N = 3
    /\ "zeros" \in DOMAIN call.locals.r[FALSE][2][1].block
    /\ call.locals.r[FALSE][1][2].block.weight = 3
    /\ call.locals.r[FALSE][2][2].block.weight = 1

(***************************************************************************)
(* iterKLS (specification SpecFlow).  A local name bound to an array is a  *)
(* record: owner tells whether writing through the name writes an array of  *)
(* the call or one the caller passed.                                      *)
(***************************************************************************)
\* a name bound to the caller's array itself
ndarray_view(a) == [owner |-> "caller", val |-> a]

\* a.copy(): a new array of the call with the same content
ndarray_copy(a) == [owner |-> "call", val |-> a]

\* target -= term, in place
isub(target, term) == [target EXCEPT !.val = [minus |-> term, from |-> @]]

RECURSIVE isub_all(_, _)
isub_all(target, terms) ==
    IF terms = <<>> THEN target
    ELSE isub_all(isub(target, Head(terms)), Tail(terms))

\* the caller's mapping after the writes made through the name target,
\* bound from the entry key
written_through(outputs, key, target) ==
    IF target.owner = "caller" THEN [outputs EXCEPT ![key] = target.val]
    ELSE outputs

\* the orders in ascending sequence
iterKLS_orders_ascending(N) == [i \in 1..N |-> i]

\* range(N, 0, -1)
iterKLS_orders(N) == [i \in 1..N |-> N + 1 - i]

\* the higher orders and weights of another coupling: every order above n
iterKLS_coupling_all_orders(n, N) ==
    [i \in 1..(N - n) |->
        [n2 |-> n + i, k |-> i \div 2, weight |-> binomial(n + i, i \div 2)]]

\* "for n2 in range(n+2, N+1, 2): k = (n2-n)//2": the orders subtracted when
\* order n is solved, with their term index and weight binomial(n2, k)
iterKLS_coupling(n, N) ==
    LET higher == arange_step2(n + 2, N)
    IN [i \in 1..Len(higher) |->
          LET n2 == higher[i]
              k == (n2 - n) \div 2
          IN [n2 |-> n2, k |-> k, weight |-> binomial(n2, k)]]

\* binomial(n2, k) * np.dot(phi[(n2, k)], f[n2]) for each coupled order
iterKLS_terms(coupling, phi, f) ==
    [i \in 1..Len(coupling) |->
        [weight |-> coupling[i].weight,
         phi |-> phi[<<coupling[i].n2, coupling[i].k>>],
         f |-> f[coupling[i].n2]]]

\* one pass of "for n in range(N, 0, -1)"
IterSolve ==
    /\ pc = "iter_loop"
    /\ LET n == iterKLS_orders(call.N)[call.locals.i]
           coupling == iterKLS_coupling(n, call.N)
       IN IF \E i \in 1..Len(coupling) :
                coupling[i].n2 \notin DOMAIN call.locals.f
          THEN \* f[n2] of an order not solved yet
               /\ pc' = "raised"
               /\ ret' = [kind |-> "error", by |-> "KeyError"]
               /\ call' = call
               /\ work' = Append(work, [op |-> "solve", n |-> n,
                                        coupling |-> coupling])
               /\ coll' = coll
          ELSE LET temp_sig ==
                       isub_all(ndarray_copy(coll.outputs[n]),
                                iterKLS_terms(coupling, call.phi,
                                              call.locals.f))
                   f_n == [basis |-> cplx_to_real(call.phi[<<n, 0>>],
                                                  call.cast_mode),
                           sig |-> cplx_to_real(temp_sig.val,
                                                call.cast_mode)]
               IN /\ call' = [call EXCEPT
                        !.locals.i = @ + 1,
                        !.locals.f = dict_set(@, n, f_n)]
                  /\ coll' = [coll EXCEPT
                        !.outputs = written_through(@, n, temp_sig)]
                  /\ pc' = IF call.locals.i = call.N THEN "iter_reshape"
                           ELSE "iter_loop"
                  /\ work' = Append(work, [op |-> "solve", n |-> n,
                                           coupling |-> coupling])
                  /\ ret' = ret
    /\ UNCHANGED <<warned, obj>>

\* "for n in range(1, N+1): kernels[n] = vector_to_kernel(f[n], ...)"
IterReshape ==
    /\ pc = "iter_reshape"
    /\ ret' = [kind |-> "kernels", keys |-> 1..call.N,
               value |-> [n \in 1..call.N |->
                   vector_to_kernel(call.locals.f[n], call.M, n, call.form)]]
    /\ pc' = "done"
    /\ UNCHANGED <<call, work, warned, obj, coll>>

(***************************************************************************)
(* Claims on iterKLS (specification SpecFlow).                             *)
(***************************************************************************)
\* an iterKLS call is in flight or over
IterRunning == call.name = "iterKLS"

\* the orders solved before the i-th pass of the loop, in the same call
SolvedBefore(i) == {work[j].n : j \in 1..(i - 1)}

\* C23: iterKLS solves the orders in the sequence N, N-1, ..., 1, and when
\* it solves order n every coefficient vector f[n2] it subtracts (n2 in
\* n+2, n+4, ... <= N) has already been solved in the same call; each
\* subtraction is C(n2,k) * phi[(n2,k)] * f[n2] with k = (n2-n)/2, and
\* orders of the other parity are never subtracted.
C23_DescendingOrderSolves ==
    IterRunning =>
        /\ pc # "raised"
        /\ pc = "done" => Len(work) = call.N
        /\ \A i \in 1..Len(work) :
              LET n == work[i].n
                  subtracted == {work[i].coupling[c].n2 :
                                    c \in 1..Len(work[i].coupling)}
              IN /\ n = call.N + 1 - i
                 /\ subtracted = {n2 \in (n + 1)..call.N : (n2 - n) % 2 = 0}
                 /\ subtracted \subseteq SolvedBefore(i)
                 /\ n \in DOMAIN call.locals.f
                 /\ \A c \in 1..Len(work[i].coupling) :
                       LET t == work[i].coupling[c]
                       IN /\ 2 * t.k = t.n2 - n
                          /\ t.weight = binomial(t.n2, t.k)
                 /\ call.locals.f[n].sig.of =
                       isub_all(ndarray_copy(coll.outputs[n]),
                                [c \in 1..Len(work[i].coupling) |->
                                    [weight |-> work[i].coupling[c].weight,
                                     phi |-> call.phi[<<work[i].coupling[c].n2,
                                                        work[i].coupling[c].k>>],
                                     f |-> call.locals.f[
                                               work[i].coupling[c].n2]]]).val

\* iterKLS has returned for N = 3: order 1 was solved last, after the
\* subtraction of the order-3 term of weight C(3,1) = 3
C23_Witness ==
    /\ IterRunning /\ pc = "done" /\ call.N = 3
    /\ work[3].n = 1
    /\ work[3].coupling = <<[n2 |-> 3, k |-> 1, weight |-> 3]>>
    /\ work[2].coupling = <<>>

\* the coupling of row n of the phaseKLS block system for the same phi and
\* N: the non-zero off-diagonal blocks as (column order, term, weight)
PhaseRowCoupling(n, N) ==
    LET is_odd == CHOOSE b \in BOOLEAN :
                      \E i \in 1..Len(phaseKLS_orders(b, N)) :
                          phaseKLS_orders(b, N)[i] = n
        r == phaseKLS_blocks(phaseKLS_r_terms(call.phi, N, call.cast_mode),
                             phaseKLS_size(call.phi, N), is_odd, N)
        row == r[CHOOSE i \in 1..Len(r) : r[i][1].row = n]
    IN {<<row[c].col, row[c].k, row[c].block.weight>> :
           c \in {x \in 1..Len(row) :
                     row[x].col # n /\ "zeros" \notin DOMAIN row[x].block}}

\* the coupling iterKLS used in the i-th pass of its loop
IterRowCoupling(i) ==
    {<<work[i].coupling[c].n2, work[i].coupling[c].k,
       work[i].coupling[c].weight>> : c \in 1..Len(work[i].coupling)}

\* C24: iterKLS and phaseKLS use the same coupling structure: for every N
\* and every order n in 1..N, the set of (higher order n2, term index k,
\* binomial weight C(n2,k)) triples that iterKLS subtracts when solving
\* order n equals the set of non-zero off-diagonal blocks (column order n2,
\* term k, weight) in row n of the phaseKLS block system.
C24_SameCoupling ==
    IterRunning =>
        /\ \A i \in 1..Len(work) :
              IterRowCoupling(i) = PhaseRowCoupling(work[i].n, call.N)
        /\ pc = "done" => {work[i].n : i \in 1..Len(work)} = 1..call.N

\* order 1 of 3 solved by iterKLS, with a non-empty coupling shared with
\* row 1 of the phaseKLS system
C24_Witness ==
    /\ IterRunning /\ pc = "done" /\ call.N = 3
    /\ IterRowCoupling(3) = {<<3, 1, 3>>}
    /\ PhaseRowCoupling(1, 3) = {<<3, 1, 3>>}

(***************************************************************************)
(* termKLS (specification SpecFlow).                                       *)
(***************************************************************************)
\* the items of a mapping keyed by (n, k), by ascending n then k
RECURSIVE term_items(_)
term_items(keys) ==
    IF keys = {} THEN <<>>
    ELSE LET least == CHOOSE x \in keys : \A y \in keys :
                          x[1] < y[1] \/ (x[1] = y[1] /\ x[2] <= y[2])
         IN <<least>> \o term_items(keys \ {least})

\* a divisor that counts the terms of odd orders only
termKLS_mean_divisor_half(n) == (n + 1) \div 2

\* "f[n] /= (1+n//2)": the divisor of order n
termKLS_mean_divisor(n) == 1 + (n \div 2)

\* _KLS_core_computation(_cplx_to_real(phi_nk, cast_mode),
\*                       _cplx_to_real(output_by_term[(n, k)], cast_mode))
term_solution(phi_nk, out_nk, cast_mode) ==
    [basis |-> cplx_to_real(phi_nk, cast_mode),
     sig |-> cplx_to_real(out_nk, cast_mode)]

\* _termKLS_core_mean_mode, "for n in range(1, N+1): f[n] = np.zeros(...)"
TermZeros ==
    /\ pc = "term_zeros"
    /\ call' = [call EXCEPT !.locals.f =
          [n \in 1..call.N |->
              [zeros |-> <<nb_coeff_in_kernel(call.M, n, call.form)>>,
               added |-> <<>>, divided_by |-> 1]]]
    /\ pc' = "term_accumulate"
    /\ UNCHANGED <<work, ret, warned, obj, coll>>

\* one pass of "for (n, k), phi_nk in phi.items(): f[n] += ..."
TermAccumulate ==
    /\ pc = "term_accumulate"
    /\ LET items == term_items(DOMAIN call.phi)
           key == items[call.locals.i]
           n == key[1]
       IN IF n \notin DOMAIN call.locals.f \/ key \notin DOMAIN coll.outputs
          THEN \* f[n] or output_by_term[(n, k)] of an order above N
               /\ pc' = "raised"
               /\ ret' = [kind |-> "error", by |-> "KeyError"]
               /\ call' = call
          ELSE /\ call' = [call EXCEPT
                     !.locals.i = @ + 1,
                     !.locals.f[n].added =
                         Append(@, term_solution(call.phi[key],
                                                 coll.outputs[key],
                                                 call.cast_mode))]
               /\ pc' = IF call.locals.i = Len(items) THEN "term_divide"
                        ELSE "term_accumulate"
               /\ ret' = ret
    /\ work' = Append(work, [op |-> "add",
                             n |-> term_items(DOMAIN call.phi)[call.locals.i][1]])
    /\ UNCHANGED <<warned, obj, coll>>

\* _termKLS_core_mean_mode, "for n in range(1, N+1): f[n] /= (1+n//2)"
TermDivide ==
    /\ pc = "term_divide"
    /\ call' = [call EXCEPT !.locals.f =
          [n \in 1..call.N |->
              [@[n] EXCEPT !.divided_by = termKLS_mean_divisor(n)]]]
    /\ pc' = "term_reshape"
    /\ UNCHANGED <<work, ret, warned, obj, coll>>

\* _termKLS_core_mmse_mode: the terms of each order stacked and solved at
\* once, k in range(1+n//2)
TermMmse ==
    /\ pc = "term_mmse"
    /\ call' = [call EXCEPT !.locals.f =
          [n \in 1..call.N |->
              term_solution([k \in 0..(n \div 2) |-> call.phi[<<n, k>>]],
                            [k \in 0..(n \div 2) |-> coll.outputs[<<n, k>>]],
                            call.cast_mode)]]
    /\ pc' = "term_reshape"
    /\ work' = Append(work, [op |-> "solve", n |-> 0])
    /\ UNCHANGED <<ret, warned, obj, coll>>

\* "for n in range(1, N+1): kernels[n] = vector_to_kernel(f[n], ...)"
TermReshape ==
    /\ pc = "term_reshape"
    /\ ret' = [kind |-> "kernels", keys |-> 1..call.N,
               value |-> [n \in 1..call.N |->
                   vector_to_kernel(call.locals.f[n], call.M, n, call.form)]]
    /\ pc' = "done"
    /\ UNCHANGED <<call, work, warned, obj, coll>>

(***************************************************************************)
(* Claims on termKLS (specification SpecFlow).                             *)
(***************************************************************************)
\* termKLS with mode='mean' has returned
TermMeanDone == call.name = "termKLS" /\ call.mode = "mean" /\ pc = "done"

\* C25: in termKLS with mode='mean', for every order n in 1..N the number
\* of per-term solutions accumulated into f[n] equals the divisor
\* 1 + n//2 = ceil((n+1)/2) by which f[n] is then divided, so the returned
\* coefficients of order n are the arithmetic mean of that order's
\* per-term estimates.
C25_MeanDividesByTermCount ==
    TermMeanDone =>
        \A n \in 1..call.N :
            LET f_n == ret.value[n].vec
            IN /\ Len(f_n.added) = f_n.divided_by
               /\ f_n.divided_by = 1 + (n \div 2)
               /\ 2 * f_n.divided_by \in {n + 1, n + 2}
               /\ {f_n.added[i].basis.of.basis : i \in 1..Len(f_n.added)}
                     = {<<n, k>> : k \in 0..(n \div 2)}

\* the mean of the two terms of order 2 and of the two terms of order 3
C25_Witness ==
    /\ TermMeanDone /\ call.N = 3
    /\ Len(ret.value[2].vec.added) = 2 /\ ret.value[2].vec.divided_by = 2
    /\ Len(ret.value[3].vec.added) = 2 /\ ret.value[3].vec.divided_by = 2
    /\ Len(ret.value[1].vec.added) = 1

(***************************************************************************)
(* orderKLS and KLS (specification SpecFlow).                              *)
(***************************************************************************)
\* a loop over the orders 1..N in the place of the items of phi
orderKLS_keys_up_to_N(phi, N) == 1..N

\* "for n, phi_n in phi.items()": the orders orderKLS loops over
orderKLS_keys(phi, N) == DOMAIN phi

\* orderKLS, the loop over phi.items() and "return kernels"
OrderLoop ==
    /\ pc = "order_loop"
    /\ LET keys == orderKLS_keys(call.phi, call.N)
       IN IF \E n \in keys : (n - 1) \notin DOMAIN coll.outputs
          THEN \* output_by_order[n-1] beyond the last row
               /\ pc' = "raised"
               /\ ret' = [kind |-> "error", by |-> "IndexError"]
          ELSE /\ pc' = "done"
               /\ ret' = [kind |-> "kernels", keys |-> keys,
                          value |-> [n \in keys |->
                              vector_to_kernel(
                                  [basis |-> call.phi[n],
                                   sig |-> coll.outputs[n - 1]],
                                  call.M, n, call.form)]]
    /\ work' = Append(work, [op |-> "solve", n |-> 0])
    /\ UNCHANGED <<call, warned, obj, coll>>

\* KLS: the bases of the mapping concatenated by ascending key, one
\* solution, cut into the kernels of orders 1..N
KlsSolve ==
    /\ pc = "kls_solve"
    /\ LET items == sorted_keys(DOMAIN call.phi)
           design == np_concatenate([i \in 1..Len(items) |->
                        [j \in 1..call.phi[items[i]].width |->
                            [n |-> items[i], j |-> j]]])
           f == KLS_core_computation(design)
           kernels == vector_to_all_kernels(f, call.M, call.N)
       IN ret' = [kind |-> "kernels", keys |-> DOMAIN kernels,
                  value |-> kernels]
    /\ pc' = "done"
    /\ work' = Append(work, [op |-> "solve", n |-> 0])
    /\ UNCHANGED <<call, warned, obj, coll>>

(***************************************************************************)
(* PAS.process_outputs, as to the arrays it writes (specification          *)
(* SpecFlow); the values are those of specification SpecPAS.               *)
(***************************************************************************)
\* np.zeros(...): a new array of the call
ndarray_new(shape) == [owner |-> "call", val |-> np_zeros(shape)]

\* target[idx] = val, in place
setitem(target, idx, val) ==
    [target EXCEPT !.val = [set |-> idx, to |-> val, from |-> @]]

RECURSIVE setitem_all(_, _)
setitem_all(target, items) ==
    IF items = <<>> THEN target
    ELSE setitem_all(setitem(target, Head(items).idx, Head(items).val),
                     Tail(items))

\* process_outputs(output_coll, raw_mode) is called on a PAS object of
\* order N
ProcessOutputsCall(N, raw_mode) ==
    /\ pc = "idle"
    /\ coll' = [state |-> "args",
                input_sig |-> caller_array("input_sig", <<>>),
                outputs |-> [i \in {0} |-> caller_array("output_coll", <<>>)],
                phi |-> NoPhi]
    /\ call' = [name |-> "process_outputs", N |-> N, raw_mode |-> raw_mode,
                nb_amp |-> (N + 1) \div 2, nb_phase |-> 2 * N + 1,
                locals |-> [out_per_phase |->
                               ndarray_new(<<(N + 1) \div 2, 2 * N + 1>>),
                            result |-> ndarray_new(<<N>>)]]
    /\ pc' = "po_ifft"
    /\ work' = <<>>
    /\ ret' = NoRet
    /\ UNCHANGED <<warned, obj>>

\* "for idx in range(self.nb_amp): out_per_phase[idx] = PS._inverse_fft(
\*  output_coll[start:end], self.nb_phase)"
PoInverseFft ==
    /\ pc = "po_ifft"
    /\ LET filled ==
               setitem_all(call.locals.out_per_phase,
                   [i \in 1..call.nb_amp |->
                       [idx |-> i - 1,
                        val |-> [ifft |-> coll.outputs[0],
                                 start |-> (i - 1) * call.nb_phase,
                                 end |-> i * call.nb_phase]]])
       IN /\ call' = [call EXCEPT !.locals.out_per_phase = filled]
          /\ coll' = [coll EXCEPT
                !.outputs = written_through(@, 0, filled)]
    /\ pc' = "po_phases"
    /\ UNCHANGED <<work, ret, warned, obj>>

\* the loop over the phases: each solution is stored into the dict of terms
\* or added to output_by_order, both made by the call; first_nl_order has
\* no entry for the last phase when N = 1
PoPhases ==
    /\ pc = "po_phases"
    /\ LET defined == {p \in 0..(call.nb_phase - 1) :
                          p + 1 <= Len(first_nl_order(call.N))}
           result == setitem_all(call.locals.result,
                        [i \in 1..Cardinality(defined) |->
                            [idx |-> i - 1,
                             val |-> [phase |-> i - 1,
                                      of |-> call.locals.out_per_phase.val]]])
       IN /\ call' = [call EXCEPT !.locals.result = result]
          /\ coll' = [coll EXCEPT !.outputs = written_through(@, 0, result)]
          /\ IF Cardinality(defined) < call.nb_phase
             THEN /\ pc' = "raised"
                  /\ ret' = [kind |-> "error", by |-> "IndexError"]
             ELSE /\ pc' = "done"
                  /\ ret' = [kind |-> IF call.raw_mode THEN "terms"
                                      ELSE "orders",
                             value |-> result.val]
    /\ UNCHANGED <<work, warned, obj>>

(***************************************************************************)
(* Claims on what the calls write and return (specification SpecFlow).     *)
(***************************************************************************)
\* C26: no identification or separation call modifies what the caller
\* passed in: during any sequence of KLS, orderKLS, termKLS, phaseKLS,
\* iterKLS and process_outputs calls, no step of a call changes the input
\* signal, the output collection / output_by_phase array or a
\* caller-supplied phi (iterKLS subtracts only from a copy of
\* output_by_phase[n]).
C26_CallerDataUnchanged == [][pc # "idle" => coll' = coll]_vars

\* iterKLS has returned after subtracting the order-3 term from its copy of
\* output_by_phase[1], the caller's array and supplied phi being as passed
C26_Witness ==
    /\ call.name = "iterKLS" /\ pc = "done" /\ call.N = 3
    /\ coll.phi.type = "dict"
    /\ "minus" \in DOMAIN call.locals.f[1].sig.of
    /\ coll.outputs[1] = caller_array("output_by_phase", <<1>>)

\* an identification call is over, returned or raised
IdentificationOver == call.name \in Methods /\ pc \in {"done", "raised"}

\* C27: all five identification entry points return a mapping whose key
\* set is exactly {1, ..., N} for the requested N, whether phi is computed
\* internally or supplied by the caller (including a supplied phi that
\* holds bases for orders above N).
C27_KeysAreOrdersUpToN ==
    IdentificationOver => (ret.kind = "kernels" /\ ret.keys = 1..call.N)

\* C27 for the calls whose phi holds the orders 1..N only, phaseKLS with
\* N = 1 left out
C27_HoldsForOwnOrders ==
    (/\ IdentificationOver
     /\ ~(call.name = "phaseKLS" /\ call.N = 1)
     /\ \A key \in DOMAIN call.phi :
           IF call.name \in {"KLS", "orderKLS"} THEN key <= call.N
           ELSE key[1] <= call.N)
        => (ret.kind = "kernels" /\ ret.keys = 1..call.N)

NextFlow ==
    \/ \E m \in Methods, M \in 1..MaxM, N \in 1..MaxN, form \in Forms,
          cast_mode \in KnownCastModes :
          \E phi \in FlowPhiArgs(m, M, N),
             mode \in FlowModes(m), nb_out \in FlowRows(m, N) :
            FlowCall(m, M, N, form, cast_mode, mode, phi, nb_out)
    \/ PhaseFactorise
    \/ PhaseSolve
    \/ PhaseSlice
    \/ IterSolve
    \/ IterReshape
    \/ TermZeros
    \/ TermAccumulate
    \/ TermDivide
    \/ TermMmse
    \/ TermReshape
    \/ OrderLoop
    \/ KlsSolve
    \/ \E N \in 1..MaxN, raw_mode \in BOOLEAN : ProcessOutputsCall(N, raw_mode)
    \/ PoInverseFft
    \/ PoPhases
    \/ Return

SpecFlow == Init /\ [][NextFlow]_vars

(***************************************************************************)
(* Claim on the phase loop of PAS.process_outputs (specification SpecPAS). *)
(***************************************************************************)
\* C28: for every N >= 1 and every phase index p in 0..2N,
\* PAS.process_outputs finds a defined entry first_nl_order[p] and selects
\* between 1 and nb_amp admissible orders (first_nl_order[p], +2, ... <= N),
\* so the Vandermonde subsystem solved for that phase has nb_amp rows and at
\* most nb_amp columns and is never underdetermined.
C28_PhaseSubsystemsDetermined ==
    PASDone =>
        /\ ret.kind = "error" => ret.by # "IndexError"
        /\ \A p \in 0..(2 * obj.N) :
              /\ p + 1 <= Len(first_nl_order(obj.N))
              /\ LET col_idx == arange_step2(first_nl_order(obj.N)[p + 1],
                                             obj.N)
                 IN 1 <= Len(col_idx) /\ Len(col_idx) <= obj.nb_amp

\* C28 restricted to N >= 2
C28_HoldsFromTwoOrders ==
    (PASDone /\ obj.N >= 2) =>
        /\ ret.kind = "error" => ret.by # "IndexError"
        /\ \A p \in 0..(2 * obj.N) :
              /\ p + 1 <= Len(first_nl_order(obj.N))
              /\ LET col_idx == arange_step2(first_nl_order(obj.N)[p + 1],
                                             obj.N)
                 IN 1 <= Len(col_idx) /\ Len(col_idx) <= obj.nb_amp

(***************************************************************************)
(* The amplitude factors in the integer arithmetic of numpy (specification *)
(* SpecAmp).  With an integer gain, np.arange(nb_test) is an int64 array   *)
(* and the powers are int64 values: every product is kept modulo 2^64.  An *)
(* int64 value is held as its 8 bytes, the least significant first.        *)
(***************************************************************************)
Int64Bytes == 8

ByteBase == 256

RECURSIVE int64_bytes(_, _)
\* the nb low bytes of the natural number x
int64_bytes(x, nb) ==
    IF nb = 0 THEN <<>>
    ELSE <<x % ByteBase>> \o int64_bytes(x \div ByteBase, nb - 1)

\* the int64 of a natural number below 2^31
int64(x) == int64_bytes(x, Int64Bytes)

\* the int64 -1
int64_minus_one == [i \in 1..Int64Bytes |-> ByteBase - 1]

int64_zero == int64(0)

RECURSIVE int64_carry(_, _, _)
\* the bytes of the column sums cols from column i on, carry coming in
int64_carry(cols, i, carry) ==
    IF i > Int64Bytes THEN <<>>
    ELSE <<(cols[i] + carry) % ByteBase>>
         \o int64_carry(cols, i + 1, (cols[i] + carry) \div ByteBase)

\* a * b on int64: the product modulo 2^64
int64_mul(a, b) ==
    LET cols == [i \in 1..Int64Bytes |->
                    SumOver([j \in 1..i |-> a[j] * b[i + 1 - j]], 1..i)]
    IN int64_carry(cols, 1, 0)

RECURSIVE int64_pow(_, _)
\* base ** e on int64
int64_pow(base, e) ==
    IF e = 0 THEN int64(1) ELSE int64_mul(base, int64_pow(base, e - 1))

\* the factors gain ** k, which leave out the sign and the halving of k
gen_amp_factors_int64_plain(gain, negative_gain, nb_test) ==
    [k \in 1..nb_test |-> int64_pow(int64(gain), k - 1)]

\* AS._gen_amp_factors for an integer gain:
\* (-1)**(tmp_vec*negative_gain) * gain**(tmp_vec // (1+negative_gain));
\* equal to gen_amp_factors as long as no power reaches 2^63
gen_amp_factors_int64(gain, negative_gain, nb_test) ==
    [k \in 1..nb_test |->
        int64_mul(int64_pow(int64_minus_one, (k - 1) * b2i(negative_gain)),
                  int64_pow(int64(gain),
                            (k - 1) \div (1 + b2i(negative_gain))))]

\* np.vander(factors, N=N+1, increasing=True)[:,1::] on int64
mixing_matrix_int64(factors, N) ==
    [k \in 1..Len(factors) |-> [j \in 1..N |-> int64_pow(factors[k], j)]]

\* the integer gains and numbers of tests tried
AmpGains == {2, 3, 10, 256, 65536}

MaxK == 6

\* AS(N, gain, negative_gain, K) with an integer gain
AmpConstructAS(N, gain, negative_gain, K) ==
    /\ pc = "idle"
    /\ obj' = [cls |-> "AS", N |-> N, K |-> K, gain |-> gain,
               negative_gain |-> negative_gain, nb_amp |-> K,
               factors |-> gen_amp_factors_int64(gain, negative_gain, K)]
    /\ pc' = "constructed"
    /\ UNCHANGED <<call, work, ret, warned, coll>>

\* PAS(N, gain) with an integer gain: nb_amp amplitudes, negative_gain False
AmpConstructPAS(N, gain) ==
    /\ pc = "idle"
    /\ obj' = [cls |-> "PAS", N |-> N, K |-> ((N + 1) \div 2) * (2 * N + 1),
               gain |-> gain, negative_gain |-> FALSE,
               nb_amp |-> (N + 1) \div 2,
               factors |-> gen_amp_factors_int64(gain, FALSE, (N + 1) \div 2)]
    /\ pc' = "constructed"
    /\ UNCHANGED <<call, work, ret, warned, coll>>

\* the mixing matrix process_outputs builds from the factors / amp_vec
AmpMixingMatrix ==
    /\ pc = "constructed"
    /\ call' = [name |-> "process_outputs",
                mixing_mat |-> mixing_matrix_int64(obj.factors, obj.N)]
    /\ pc' = "mixed"
    /\ UNCHANGED <<work, ret, warned, obj, coll>>

NextAmp ==
    \/ \E N \in 1..MaxN, gain \in AmpGains, negative_gain \in BOOLEAN,
          K \in 1..MaxK : AmpConstructAS(N, gain, negative_gain, K)
    \/ \E N \in 1..MaxN, gain \in AmpGains : AmpConstructPAS(N, gain)
    \/ AmpMixingMatrix

SpecAmp == Init /\ [][NextAmp]_vars

\* C29: for every integer gain >= 2, every K >= 1 and both settings of
\* negative_gain, the K factors generated by AS (and the nb_amp amplitudes
\* of PAS) are non-zero and pairwise distinct, so no two rows of the mixing
\* matrix are equal.
C29_FactorsNonZeroAndDistinct ==
    (pc \in {"constructed", "mixed"} /\ obj.gain >= 2) =>
        /\ \A k \in 1..Len(obj.factors) : obj.factors[k] # int64_zero
        /\ \A k1, k2 \in 1..Len(obj.factors) :
              k1 # k2 => obj.factors[k1] # obj.factors[k2]
        /\ pc = "mixed" =>
              \A k1, k2 \in 1..Len(call.mixing_mat) :
                  k1 # k2 => call.mixing_mat[k1] # call.mixing_mat[k2]

RECURSIVE BitLength(_)
\* the number of bits of the natural number x
BitLength(x) == IF x = 0 THEN 0 ELSE 1 + BitLength(x \div 2)

\* every power gain ** e taken for the factors is below 2^63
PowersFitInt64 ==
    \A k \in 1..Len(obj.factors) :
        BitLength(obj.gain) * ((k - 1) \div (1 + b2i(obj.negative_gain))) <= 63

\* C29 restricted to the factors whose powers fit
C29_HoldsWithoutOverflow ==
    (pc \in {"constructed", "mixed"} /\ obj.gain >= 2 /\ PowersFitInt64)
        => /\ \A k \in 1..Len(obj.factors) : obj.factors[k] # int64_zero
           /\ \A k1, k2 \in 1..Len(obj.factors) :
                 k1 # k2 => obj.factors[k1] # obj.factors[k2]
           /\ pc = "mixed" =>
                 \A k1, k2 \in 1..Len(call.mixing_mat) :
                     k1 # k2 => call.mixing_mat[k1] # call.mixing_mat[k2]

(***************************************************************************)
(* Claim on the 'imag' cast of _cplx_to_real (specification SpecCast).     *)
(***************************************************************************)
\* _cplx_to_real has returned
CastDone == pc = "done" /\ call.name = "_cplx_to_real"

\* C30: _cplx_to_real with cast_mode='imag' returns a result computed from
\* the imaginary part of its input (2*Im), so for an input with non-zero
\* imaginary part the 'imag' and 'real' cast modes return different arrays;
\* both keep the input's row count while 'real-imag' doubles it.
C30_ImagCastUsesImaginaryPart ==
    CastDone =>
        LET sig == call.sig_cplx
        IN /\ call.cast_mode_arg = "imag" =>
                /\ ret.value = [i \in 1..Len(sig) |-> 2 * np_imag(sig)[i]]
                /\ (\E i \in 1..Len(sig) : np_imag(sig)[i] # 0) =>
                      ret.value # cast_branches(sig, "real").value
           /\ call.cast_mode_arg \in {"real", "imag"} =>
                Len(ret.value) = Len(sig)
           /\ call.cast_mode_arg = "real-imag" =>
                Len(ret.value) = 2 * Len(sig)

\* the row counts alone: 'real' and 'imag' keep them, 'real-imag' doubles
C30_RowCounts ==
    CastDone =>
        /\ call.cast_mode_arg \in {"real", "imag"} =>
              Len(ret.value) = Len(call.sig_cplx)
        /\ call.cast_mode_arg = "real-imag" =>
              Len(ret.value) = 2 * Len(call.sig_cplx)

====
